---- MODULE Spec2Model ----
(***************************************************************************)
(* A model of cuniq / line_cardinality: the two line tokenizers, the line  *)
(* preprocessor, the three cardinality estimators (Exact, NearExact,       *)
(* HyperLogLog) and the command line driver.                               *)
(*                                                                         *)
(* Bytes are naturals 0..255, a line is a sequence of bytes, a 64-bit hash *)
(* is a sequence of 64 bits (most significant bit first).                  *)
(***************************************************************************)
EXTENDS Integers, Sequences, FiniteSets, TLC

VARIABLES
    \* --- tokenizer harness (one input, one fresh LineCounter per path) ---
    feature_memchr,   \* cargo feature "memchr" of the build
    tok_input,        \* the input bytes
    read_done,        \* count_unique_in_read has run
    read_calls,       \* the count_line arguments it made, in call order
    read_count,       \* LineCounter::count() after it
    bytes_done,       \* count_unique_in_bytes has run
    bytes_calls,      \* the count_line arguments it made, in call order
    bytes_count,      \* LineCounter::count() after it
    \* --- the estimators, fed the same stream of lines ---
    line_mapper,      \* the line mapper all estimators were constructed with
    hasher,           \* RandomState: the keyed hash, fixed at construction
    lc,               \* LineCounter = HashingLineCounter<(), M>
    ne,               \* InexactHashingLineCounter<M>
    hll,              \* HyperLogLog<M>
    seen,             \* history: lines passed to count_line since the last reset
    collided,         \* history: mapped lines whose first occurrence hit an equal hash
    before_reset,     \* history: LineCounter::count() when reset() was last called, or NoReset
    \* --- the reporting Exact counter HashingLineCounter<C, M> ---
    counter_bits,     \* width of C
    overflow_checks,  \* build profile: arithmetic overflow panics (debug) or wraps
    rc,               \* the counter
    rc_seen,          \* history: lines passed to count_line since the last reset
    rc_panicked,      \* a count_line call panicked
    \* --- HyperLogLog construction ---
    ctor_fn,          \* which constructor was called, or "none"
    ctor_size,        \* its size argument
    ctor_result,      \* Ok(estimator) or Err(error)
    ctor_count,       \* what count() of the estimator last returned, or NoCount
    \* --- one run of the cuniq binary ---
    args,             \* CliArgs
    env,              \* the world: stdin, files
    pc,               \* position in main
    files,            \* process_input's Vec<File>
    cursor,           \* next line of the input being read
    run_calls,        \* history: count_line calls, <<input, line>>
    stdout,           \* bytes written to stdout
    stderr,           \* lines written to stderr
    exit_code,        \* ExitCode, or Unset while running
    io_log,           \* history: opens, reads, memory maps and writes, in order
    \* --- one call of main.rs preprocess_line ---
    pre_line,         \* its line argument
    pre_buffer,       \* the scratch buffer
    pre_out,          \* the slice it returned
    pre_calls         \* calls made on this buffer

tokVars == <<feature_memchr, tok_input, read_done, read_calls, read_count,
            bytes_done, bytes_calls, bytes_count>>
engVars == <<line_mapper, hasher, lc, ne, hll, seen, collided, before_reset>>
repVars == <<counter_bits, overflow_checks, rc, rc_seen, rc_panicked>>
ctorVars == <<ctor_fn, ctor_size, ctor_result, ctor_count>>
preVars == <<pre_line, pre_buffer, pre_out, pre_calls>>
runVars == <<args, env, pc, files, cursor, run_calls, stdout, stderr, exit_code, io_log, preVars>>
vars == <<tokVars, engVars, repVars, ctorVars, runVars>>

Unset == "unset"

\* no reset() yet
NoReset == 0 - 1

(***************************************************************************)
(* Bytes                                                                   *)
(***************************************************************************)
LF == 10
CR == 13
TAB == 9
SP == 32
UpperA == 65
LowerA == 97
LowerB == 98

RECURSIVE SeqsUpTo(_, _)
\* all sequences over S of length at most n
SeqsUpTo(S, n) ==
    IF n = 0 THEN {<<>>}
    ELSE LET shorter == SeqsUpTo(S, n - 1)
         IN  shorter \cup {Append(s, x) : s \in {t \in shorter : Len(t) = n - 1}, x \in S}

Range(s) == {s[i] : i \in 1..Len(s)}

\* &bytes[from..to] with 0-based, end-exclusive Rust indices
Slice(bytes, from, to) == SubSeq(bytes, from + 1, to)

(***************************************************************************)
(* Line source adapters (lib.rs)                                           *)
(***************************************************************************)
\* memchr::memchr_iter(b'\n', bytes): the 0-based indices of the newlines, ascending
NewlineIndices(bytes) == {i \in 0..(Len(bytes) - 1) : bytes[i + 1] = LF}

RECURSIVE MemchrLoop(_, _, _, _)
\* the for loop of count_unique_in_bytes: i scans for the next newline index
MemchrLoop(bytes, start, i, acc) ==
    IF i >= Len(bytes)
    THEN \* handle trailing
         IF start < Len(bytes) THEN Append(acc, Slice(bytes, start, Len(bytes))) ELSE acc
    ELSE IF i \in NewlineIndices(bytes)
         THEN MemchrLoop(bytes, i + 1, i + 1, Append(acc, Slice(bytes, start, i)))
         ELSE MemchrLoop(bytes, start, i + 1, acc)

\* bstr trim_line_slice, applied by for_byte_line to every segment: drops a
\* final \n and then a \r before it
TrimLineSlice(seg) ==
    IF Len(seg) > 0 /\ seg[Len(seg)] = LF
    THEN LET noLf == SubSeq(seg, 1, Len(seg) - 1)
         IN  IF Len(noLf) > 0 /\ noLf[Len(noLf)] = CR
             THEN SubSeq(noLf, 1, Len(noLf) - 1)
             ELSE noLf
    ELSE seg

RECURSIVE ForByteLineLoop(_, _, _, _)
\* bstr for_byte_line_with_terminator: segments end with their \n, the last
\* segment is the unterminated rest when it is not empty
ForByteLineLoop(bytes, start, i, acc) ==
    IF i >= Len(bytes)
    THEN IF start < Len(bytes)
         THEN Append(acc, TrimLineSlice(Slice(bytes, start, Len(bytes))))
         ELSE acc
    ELSE IF bytes[i + 1] = LF
         THEN ForByteLineLoop(bytes, i + 1, i + 1,
                              Append(acc, TrimLineSlice(Slice(bytes, start, i + 1))))
         ELSE ForByteLineLoop(bytes, start, i + 1, acc)

\* the count_line arguments of count_unique_in_read, in call order
ReadLines(bytes) == ForByteLineLoop(bytes, 0, 0, <<>>)

\* the count_line arguments of count_unique_in_bytes, in call order
BytesLines(memchr, bytes) ==
    IF memchr THEN MemchrLoop(bytes, 0, 0, <<>>) ELSE ReadLines(bytes)

(***************************************************************************)
(* Preprocessor (main.rs preprocess_line, with bstr's trim and             *)
(* to_lowercase_into)                                                      *)
(***************************************************************************)
\* the four instantiations preprocess_line::<TRIM, LOWERCASE>
LineMappers == [trim : BOOLEAN, lowercase : BOOLEAN]

\* ASCII bytes with the White_Space property: \t \n \v \f \r and space
AsciiWhitespace == (9..13) \cup {SP}

\* bstr whitespace_len_fwd / whitespace_len_rev decode UTF-8 and match
\* White_Space: U+0085 is C2 85 and U+00A0 is C2 A0
LeadC2 == 194
Utf8Whitespace2 == {133, 160}

RECURSIVE TrimStart(_)
TrimStart(s) ==
    IF Len(s) >= 1 /\ s[1] \in AsciiWhitespace THEN TrimStart(Tail(s))
    ELSE IF Len(s) >= 2 /\ s[1] = LeadC2 /\ s[2] \in Utf8Whitespace2
         THEN TrimStart(Tail(Tail(s)))
         ELSE s

RECURSIVE TrimEnd(_)
TrimEnd(s) ==
    IF Len(s) >= 1 /\ s[Len(s)] \in AsciiWhitespace THEN TrimEnd(SubSeq(s, 1, Len(s) - 1))
    ELSE IF Len(s) >= 2 /\ s[Len(s) - 1] = LeadC2 /\ s[Len(s)] \in Utf8Whitespace2
         THEN TrimEnd(SubSeq(s, 1, Len(s) - 2))
         ELSE s

\* a mutant of Trim: the end is left as it is
Trim_StartOnly(s) == TrimStart(s)

\* ByteSlice::trim
Trim(s) == TrimEnd(TrimStart(s))

\* the lead byte of U+00C0..U+00FF
LeadC3 == 195

\* a mutant of ToLowercase: nothing is lowered
ToLowercase_Nothing(s) == s

RECURSIVE ToLowercase(_)
\* ByteSlice::to_lowercase_into: ASCII A-Z and the two-byte capitals
\* U+00C0..U+00DE (C3 80..C3 9E, without the sign U+00D7) are lowered, every
\* other byte of the modelled alphabet is copied
ToLowercase(s) ==
    IF s = <<>> THEN <<>>
    ELSE IF s[1] \in 65..90 THEN <<s[1] + 32>> \o ToLowercase(Tail(s))
    ELSE IF Len(s) >= 2 /\ s[1] = LeadC3 /\ s[2] \in ((128..158) \ {151})
         THEN <<s[1], s[2] + 32>> \o ToLowercase(Tail(Tail(s)))
         ELSE <<s[1]>> \o ToLowercase(Tail(s))

\* a clear that leaves the previous contents in place
BufferClear_Kept(buffer) == buffer

\* Vec::clear
BufferClear(buffer) == <<>>

\* a preprocessor that lowers the untrimmed line
preprocess_line_LowersUntrimmed(mapper, line, buffer) ==
    LET trimmed == IF mapper.trim THEN Trim(line) ELSE line
        lowered == BufferClear(buffer) \o ToLowercase(line)
    IN  IF mapper.lowercase
        THEN [out |-> lowered, buffer |-> lowered]
        ELSE [out |-> trimmed, buffer |-> buffer]

\* preprocess_line::<TRIM, LOWERCASE>(line, buffer): the returned slice and
\* the scratch buffer afterwards
preprocess_line(mapper, line, buffer) ==
    LET trimmed == IF mapper.trim THEN Trim(line) ELSE line
        \* buffer.clear(); trimmed.to_lowercase_into(buffer), which appends
        lowered == BufferClear(buffer) \o ToLowercase(trimmed)
    IN  IF mapper.lowercase
        THEN [out |-> lowered, buffer |-> lowered]
        ELSE [out |-> trimmed, buffer |-> buffer]

(***************************************************************************)
(* 64-bit hashes (hyperloglog.rs type Hash = u64)                          *)
(***************************************************************************)
HashBits == 64

Zeros(n) == [i \in 1..n |-> 0]
Ones(n) == [i \in 1..n |-> 1]

\* the hash whose top bits are prefix, followed by k zeros, then ones
MkHash(prefix, k) == prefix \o Zeros(k) \o Ones(HashBits - Len(prefix) - k)

RECURSIVE BitsToNat(_)
BitsToNat(bits) ==
    IF bits = <<>> THEN 0
    ELSE 2 * BitsToNat(SubSeq(bits, 1, Len(bits) - 1)) + bits[Len(bits)]

\* hash >> n, as the value of the remaining top bits
ShiftRight(hash, n) == BitsToNat(SubSeq(hash, 1, HashBits - n))

\* a & b
BitAnd(a, b) == [i \in 1..HashBits |-> a[i] * b[i]]

RECURSIVE leading_zeros(_)
\* u64::leading_zeros
leading_zeros(w) ==
    IF w = <<>> THEN 0
    ELSE IF w[1] = 1 THEN 0 ELSE 1 + leading_zeros(Tail(w))

(***************************************************************************)
(* Exact estimator in count mode: LineCounter = HashingLineCounter<(), M>  *)
(* (hashing.rs)                                                            *)
(***************************************************************************)
Unit == "()"

\* HashingLineCounter::with_line_mapper_and_capacity
NewHashingLineCounter == [map |-> <<>>, string_buffer |-> <<>>, count |-> 0]

\* an insertion that does not reach the map
MapInsert_Dropped(map, key, value) == map

\* the map with key |-> value added
MapInsert(map, key, value) ==
    [k \in (DOMAIN map) \cup {key} |-> IF k = key THEN value ELSE map[k]]

\* a mutant of LineCounterCountLine: the map is not looked up, every line
\* counts as new
LineCounterCountLine_NoLookup(st, mapper, line) ==
    LET m == preprocess_line(mapper, line, st.string_buffer)
    IN  [map |-> MapInsert(st.map, m.out, Unit),
         string_buffer |-> m.buffer,
         count |-> st.count + 1]

\* impl CountUnique for HashingLineCounter<(), M>: count_line
LineCounterCountLine(st, mapper, line) ==
    LET m == preprocess_line(mapper, line, st.string_buffer)
    IN  IF m.out \in DOMAIN st.map
        THEN [st EXCEPT !.string_buffer = m.buffer]
        ELSE [map |-> MapInsert(st.map, m.out, Unit),
              string_buffer |-> m.buffer,
              count |-> st.count + 1]

\* HashingLineCounter::count
HashingLineCounterCount(st) == st.count

\* a mutant of HashingLineCounterReset: the map is cleared, the count is kept
HashingLineCounterReset_KeepsCount(st) == [st EXCEPT !.map = <<>>]

\* HashingLineCounter::reset
HashingLineCounterReset(st) == [st EXCEPT !.count = 0, !.map = <<>>]

(***************************************************************************)
(* NearExact estimator: InexactHashingLineCounter<M> (hashing_inexact.rs)  *)
(***************************************************************************)
\* InexactHashingLineCounter::with_line_mapper_and_capacity
NewInexact == [map |-> {}, string_buffer |-> <<>>, count |-> 0]

\* a mutant of InexactCountLine: the hash is inserted without looking it up
InexactCountLine_NoLookup(st, hash_one, mapper, line) ==
    [map |-> st.map \cup {hash_one[preprocess_line(mapper, line, st.string_buffer).out]},
     string_buffer |-> preprocess_line(mapper, line, st.string_buffer).buffer,
     count |-> st.count + 1]

\* impl CountUnique for InexactHashingLineCounter<M>: count_line
InexactCountLine(st, hash_one, mapper, line) ==
    LET m == preprocess_line(mapper, line, st.string_buffer)
        hash == hash_one[m.out]
    IN  IF \E found_hash \in st.map : found_hash = hash
        THEN [st EXCEPT !.string_buffer = m.buffer]
        ELSE [map |-> st.map \cup {hash},
              string_buffer |-> m.buffer,
              count |-> st.count + 1]

\* InexactHashingLineCounter::count
InexactCount(st) == st.count

\* a mutant of InexactReset: the table is cleared, the count is kept
InexactReset_KeepsCount(st) == [st EXCEPT !.map = {}]

\* InexactHashingLineCounter::reset
InexactReset(st) == [st EXCEPT !.count = 0, !.map = {}]

(***************************************************************************)
(* HyperLogLog estimator (hyperloglog.rs)                                  *)
(***************************************************************************)
\* usize values are words of UsizeBits bits, most significant bit first, as
\* the hashes are: a register count may be any word up to usize::MAX
UsizeBits == 64

\* the bits a number of the model can have
NatBitsMax == 30

\* the word of a number below 2^NatBitsMax
Usize(n) ==
    [i \in 1..UsizeBits |->
        IF UsizeBits - i >= NatBitsMax THEN 0 ELSE (n \div 2^(UsizeBits - i)) % 2]

\* the number of a word below 2^NatBitsMax
UsizeValue(w) == BitsToNat(SubSeq(w, UsizeBits - NatBitsMax + 1, UsizeBits))

\* a < b on words
UsizeLess(a, b) ==
    \E i \in 1..UsizeBits : a[i] < b[i] /\ \A j \in 1..(i - 1) : a[j] = b[j]

\* usize::count_ones
count_ones(w) == Cardinality({i \in 1..UsizeBits : w[i] = 1})

\* usize::is_power_of_two
is_power_of_two(w) == count_ones(w) = 1

\* usize::ilog2, for a word that is not 0
ilog2(w) == UsizeBits - 1 - leading_zeros(w)

MinSize == 16

\* a mutant of check_size: the minimum size is not checked
check_size_NoMinimum(size) ==
    IF ~is_power_of_two(size)
    THEN [ok |-> FALSE, message |-> "HyperLogLog size must be a power of 2",
          cause |-> <<"Size", size>>]
    ELSE [ok |-> TRUE,
          bits |-> ilog2(size),
          shift_bits |-> HashBits - ilog2(size),
          mask |-> Zeros(ilog2(size)) \o Ones(HashBits - ilog2(size))]

\* a check_size whose mask keeps the lowest index bit
check_size_WideMask(size) ==
    IF ~is_power_of_two(size)
    THEN [ok |-> FALSE, message |-> "HyperLogLog size must be a power of 2",
          cause |-> <<"Size", size>>]
    ELSE IF UsizeLess(size, Usize(MinSize))
    THEN [ok |-> FALSE, message |-> "HyperLogLog size must be at least 16",
          cause |-> <<"Size", size>>]
    ELSE [ok |-> TRUE,
          bits |-> ilog2(size),
          shift_bits |-> HashBits - ilog2(size),
          mask |-> Zeros(ilog2(size) - 1) \o Ones(HashBits - ilog2(size) + 1)]

\* check_size: Ok(SizeInfo) or Err(Error::hyper_log_log(message, size))
check_size(size) ==
    IF ~is_power_of_two(size)
    THEN [ok |-> FALSE, message |-> "HyperLogLog size must be a power of 2",
          cause |-> <<"Size", size>>]
    ELSE IF UsizeLess(size, Usize(MinSize))
    THEN [ok |-> FALSE, message |-> "HyperLogLog size must be at least 16",
          cause |-> <<"Size", size>>]
    ELSE LET bits == ilog2(size)
         IN  [ok |-> TRUE,
              bits |-> bits,
              shift_bits |-> HashBits - bits,
              mask |-> Zeros(bits) \o Ones(HashBits - bits)]

\* HyperLogLog::with_line_mapper_and_capacity (and with_capacity, which
\* differs in the line mapper alone)
with_line_mapper_and_capacity(size) ==
    LET info == check_size(Usize(size))
    IN  IF ~info.ok THEN info
        ELSE [ok |-> TRUE,
              size |-> size,
              bits |-> info.bits,
              shift_bits |-> info.shift_bits,
              mask |-> info.mask,
              counters |-> [i \in 0..(size - 1) |-> 0],
              string_buffer |-> <<>>]

\* HyperLogLog::left_bits
left_bits(st, hash) == ShiftRight(hash, st.shift_bits)

\* a mutant of right_bits: the index bits are not masked off
right_bits_NoMask(st, hash) == hash

\* HyperLogLog::right_bits
right_bits(st, hash) == BitAnd(hash, st.mask)

\* `as u8`
AsU8(x) == x % 256

\* u8::max
U8Max(a, b) == IF a >= b THEN a ELSE b

\* a mutant of UpdateCounter: the register is overwritten
UpdateCounter_Overwrite(counter, zero_count) == zero_count

\* the register update of count_line: *counter = u8::max(*counter, zero_count)
UpdateCounter(counter, zero_count) == U8Max(counter, zero_count)

\* a count_line that counts the leading zeros without the one after them
HllCountLine_RhoFromZero(st, hash_one, mapper, line) ==
    LET m == preprocess_line(mapper, line, st.string_buffer)
        hash == hash_one[m.out]
        index == left_bits(st, hash)
        zero_count == AsU8(leading_zeros(right_bits(st, hash)) - st.bits)
    IN  [st EXCEPT !.string_buffer = m.buffer,
                   !.counters[index] = UpdateCounter(@, zero_count)]

\* impl CountUnique for HyperLogLog<M>: count_line
HllCountLine(st, hash_one, mapper, line) ==
    LET m == preprocess_line(mapper, line, st.string_buffer)
        hash == hash_one[m.out]
        index == left_bits(st, hash)
        zero_count == AsU8(leading_zeros(right_bits(st, hash)) + 1 - st.bits)
    IN  [st EXCEPT !.string_buffer = m.buffer,
                   !.counters[index] = UpdateCounter(@, zero_count)]

\* a reset that drops the registers
HllReset_Truncates(st) == [st EXCEPT !.counters = <<>>]

\* HyperLogLog::reset
HllReset(st) == [st EXCEPT !.counters = [i \in DOMAIN st.counters |-> 0]]

\* magic_bias_constant, in thousandths
magic_bias_constant(size) ==
    IF size = 16 THEN 673
    ELSE IF size = 32 THEN 697
    ELSE IF size = 64 THEN 709
    ELSE (721300 * size) \div (1000 * size + 1079)

\* fractional bits of the fixed-point sum in HllCount
SumFractionBits == 10

RECURSIVE SumOver(_, _)
\* the sum of f over the indices in S
SumOver(f, S) ==
    IF S = {} THEN 0
    ELSE LET i == CHOOSE j \in S : TRUE IN f[i] + SumOver(f, S \ {i})

\* sum of 2^-counter over the registers, in units of 2^-SumFractionBits; a
\* register above SumFractionBits adds less than one unit and is taken as 0
HarmonicSum(st) ==
    SumOver([i \in DOMAIN st.counters |->
                IF st.counters[i] <= SumFractionBits
                THEN 2^(SumFractionBits - st.counters[i]) ELSE 0],
            DOMAIN st.counters)

\* (size * ln(size / zeroed) + 0.5) as usize, for size 16 and zeroed 1..16
LinearCounting16 == <<44, 33, 27, 22, 19, 16, 13, 11, 9, 8, 6, 5, 3, 2, 1, 0>>

\* the same for size 32 and zeroed 1..32
LinearCounting32 ==
    <<111, 89, 76, 67, 59, 54, 49, 44, 41, 37, 34, 31, 29, 26, 24, 22,
      20, 18, 17, 15, 13, 12, 11, 9, 8, 7, 5, 4, 3, 2, 1, 0>>

\* a count without the fall back to linear counting
HllCount_NoLinearCounting(st) ==
    ((magic_bias_constant(st.size) * st.size * st.size * 2^SumFractionBits)
        \div HarmonicSum(st) + 500) \div 1000

\* HyperLogLog::count, for the sizes 16 and 32: the raw estimate
\* magic_bias_constant * size^2 / sum in thousandths, linear counting below
\* 2.5 * size where a register is zero, and `(count + 0.5) as usize`
HllCount(st) ==
    LET count == (magic_bias_constant(st.size) * st.size * st.size * 2^SumFractionBits)
                     \div HarmonicSum(st)
        zeroed_counters == Cardinality({i \in DOMAIN st.counters : st.counters[i] = 0})
    IN  IF count < st.size * 2500 /\ zeroed_counters # 0
        THEN IF st.size = 16 THEN LinearCounting16[zeroed_counters]
             ELSE LinearCounting32[zeroed_counters]
        ELSE (count + 500) \div 1000

(***************************************************************************)
(* Exact estimator in report mode: HashingLineCounter<C, M> with           *)
(* C: Increment (hashing.rs, increment.rs)                                 *)
(***************************************************************************)
\* the counter widths whose overflow is modelled: u8 and u16 (the impls for
\* u32, u64, u128 and usize have the same body; no count here reaches 2^32)
CounterWidths == {8, 16}

\* Increment::new
IncrementNew == 1

\* Increment::increment, `*self += 1` at the given width: the new value, or a
\* panic where the build checks arithmetic overflow
Increment(value, bits, checks) ==
    IF bits \in CounterWidths /\ value + 1 > 2^bits - 1
    THEN IF checks THEN [panic |-> TRUE, value |-> value]
                   ELSE [panic |-> FALSE, value |-> (value + 1) % (2^bits)]
    ELSE [panic |-> FALSE, value |-> value + 1]

\* a mutant of ReportCountLine: a line already in the map is not incremented
ReportCountLine_NoModify(st, bits, checks, mapper, line) ==
    LET m == preprocess_line(mapper, line, st.string_buffer)
    IN  [panic |-> FALSE,
         st |-> IF m.out \in DOMAIN st.map
                THEN [st EXCEPT !.string_buffer = m.buffer]
                ELSE [map |-> MapInsert(st.map, m.out, 1),
                      string_buffer |-> m.buffer,
                      count |-> st.count + 1]]

\* impl CountUnique for HashingLineCounter<C, M>: count_line
ReportCountLine(st, bits, checks, mapper, line) ==
    LET m == preprocess_line(mapper, line, st.string_buffer)
    IN  IF m.out \in DOMAIN st.map
        THEN LET inc == Increment(st.map[m.out], bits, checks)
             IN  [panic |-> inc.panic,
                  st |-> [st EXCEPT !.string_buffer = m.buffer,
                                    !.map[m.out] = inc.value]]
        ELSE [panic |-> FALSE,
              st |-> [map |-> MapInsert(st.map, m.out, IncrementNew),
                      string_buffer |-> m.buffer,
                      count |-> st.count + 1]]

\* ReportUnique::to_report_vec, as the set of its (line, count) entries
ReportEntries(st) == {<<k, st.map[k]>> : k \in DOMAIN st.map}

(***************************************************************************)
(* Idle values of the parts a specification does not drive                 *)
(***************************************************************************)
TokIdle ==
    /\ feature_memchr = TRUE
    /\ tok_input = <<>>
    /\ read_done = FALSE
    /\ read_calls = <<>>
    /\ read_count = 0
    /\ bytes_done = FALSE
    /\ bytes_calls = <<>>
    /\ bytes_count = 0

EngIdle ==
    /\ line_mapper = [trim |-> FALSE, lowercase |-> FALSE]
    /\ hasher = <<>>
    /\ lc = Unset
    /\ ne = Unset
    /\ hll = Unset
    /\ seen = <<>>
    /\ collided = {}
    /\ before_reset = NoReset

RepIdle ==
    /\ counter_bits = 16
    /\ overflow_checks = FALSE
    /\ rc = Unset
    /\ rc_seen = <<>>
    /\ rc_panicked = FALSE

\* count() was not called
NoCount == 0 - 1

CtorIdle ==
    /\ ctor_fn = "none"
    /\ ctor_size = 0
    /\ ctor_result = Unset
    /\ ctor_count = NoCount

PreIdle ==
    /\ pre_line = <<>>
    /\ pre_buffer = <<>>
    /\ pre_out = <<>>
    /\ pre_calls = 0

RunIdle ==
    /\ args = Unset
    /\ env = Unset
    /\ pc = "idle"
    /\ files = <<>>
    /\ cursor = 0
    /\ run_calls = <<>>
    /\ stdout = <<>>
    /\ stderr = <<>>
    /\ exit_code = Unset
    /\ io_log = <<>>
    /\ PreIdle

(***************************************************************************)
(* SpecTok: one input through both line source adapters, each into a fresh *)
(* LineCounter without a line mapper                                       *)
(***************************************************************************)
MaxInputLen == 4

\* the bytes inputs are made of
TokBytes == {LF, CR, LowerA, LowerB}

NoMapper == [trim |-> FALSE, lowercase |-> FALSE]

RECURSIVE LineCounterCountLines(_, _, _)
\* count_line on each line in turn
LineCounterCountLines(st, mapper, lines) ==
    IF lines = <<>> THEN st
    ELSE LineCounterCountLines(LineCounterCountLine(st, mapper, Head(lines)), mapper, Tail(lines))

TokInit ==
    /\ feature_memchr \in BOOLEAN
    /\ tok_input \in SeqsUpTo(TokBytes, MaxInputLen)
    /\ read_done = FALSE
    /\ read_calls = <<>>
    /\ read_count = 0
    /\ bytes_done = FALSE
    /\ bytes_calls = <<>>
    /\ bytes_count = 0
    /\ EngIdle /\ RepIdle /\ CtorIdle /\ RunIdle

\* CountUnique::count_unique_in_read on a fresh LineCounter
CountUniqueInRead ==
    /\ ~read_done
    /\ read_done' = TRUE
    /\ read_calls' = ReadLines(tok_input)
    /\ read_count' = HashingLineCounterCount(
                         LineCounterCountLines(NewHashingLineCounter, NoMapper, ReadLines(tok_input)))
    /\ UNCHANGED <<feature_memchr, tok_input, bytes_done, bytes_calls, bytes_count>>
    /\ UNCHANGED <<engVars, repVars, ctorVars, runVars>>

\* CountUnique::count_unique_in_bytes on a fresh LineCounter
CountUniqueInBytes ==
    /\ ~bytes_done
    /\ bytes_done' = TRUE
    /\ bytes_calls' = BytesLines(feature_memchr, tok_input)
    /\ bytes_count' = HashingLineCounterCount(
                          LineCounterCountLines(NewHashingLineCounter, NoMapper,
                                                BytesLines(feature_memchr, tok_input)))
    /\ UNCHANGED <<feature_memchr, tok_input, read_done, read_calls, read_count>>
    /\ UNCHANGED <<engVars, repVars, ctorVars, runVars>>

TokNext == CountUniqueInRead \/ CountUniqueInBytes

SpecTok == TokInit /\ [][TokNext]_vars

\* the segments of the input split at every \n: one from each segment start
\* to the byte before the next \n, or to the end of the input for a
\* non-empty unterminated tail
SegmentStarts(bytes) == {1} \cup {p + 1 : p \in {q \in 1..Len(bytes) : bytes[q] = LF}}

SegmentEnd(bytes, start) ==
    LET later == {q \in start..Len(bytes) : bytes[q] = LF}
    IN  IF later = {} THEN Len(bytes)
        ELSE (CHOOSE q \in later : \A r \in later : q <= r) - 1

DistinctSegments(bytes) ==
    {SubSeq(bytes, start, SegmentEnd(bytes, start)) :
        start \in {t \in SegmentStarts(bytes) :
                      t <= Len(bytes) \/ \E q \in t..Len(bytes) : bytes[q] = LF}}

\* C1: on a fresh Exact counter without a line mapper, count() after
\* count_unique_in_read or count_unique_in_bytes is the number of distinct
\* segments of the input split at every \n (an empty segment between newlines
\* counts, a non-empty unterminated tail counts, the empty tail after a final
\* \n does not).
C1_CountIsDistinctSegments ==
    /\ read_done => read_count = Cardinality(DistinctSegments(tok_input))
    /\ bytes_done => bytes_count = Cardinality(DistinctSegments(tok_input))

\* C2: on the same input the buffered-reader path and the byte-range path
\* call count_line with the same sequence of lines.
C2_AdaptersMakeSameCalls ==
    (read_done /\ bytes_done) => read_calls = bytes_calls

(***************************************************************************)
(* Spec: the estimators, constructed with the same line mapper and hasher  *)
(* seeds and fed the same lines                                            *)
(***************************************************************************)
MaxCalls == 4

\* the lines fed: the empty line, "a", "A" and " a"
EngLines == {<<>>, <<LowerA>>, <<UpperA>>, <<SP, LowerA>>}

\* hash values: index 0 with an all-zero right part; then three with top
\* bits 0101: 01011 1.., 01010 0001.., 01011 01..
EngHash0 == Zeros(HashBits)
EngHash1 == MkHash(<<0, 1, 0, 1, 1>>, 0)
EngHash2 == MkHash(<<0, 1, 0, 1, 0>>, 3)
EngHash3 == MkHash(<<0, 1, 0, 1, 1>>, 1)

\* the keyed hash under three seeds: without collision; "a" and "A"
\* colliding; the empty line, "a" and " a" colliding
EngHashers ==
    { [l \in EngLines |->
          IF l = <<>> THEN EngHash0 ELSE IF l = <<LowerA>> THEN EngHash1
          ELSE IF l = <<UpperA>> THEN EngHash2 ELSE EngHash3],
      [l \in EngLines |->
          IF l = <<>> THEN EngHash3 ELSE IF l = <<LowerA>> THEN EngHash2
          ELSE IF l = <<UpperA>> THEN EngHash2 ELSE EngHash0],
      [l \in EngLines |->
          IF l = <<UpperA>> THEN EngHash1 ELSE EngHash3] }

\* the register counts the HyperLogLog estimator is constructed with
EngSizes == {16, 32}

Init ==
    /\ line_mapper \in LineMappers
    /\ hasher \in EngHashers
    /\ lc = NewHashingLineCounter
    /\ ne = NewInexact
    /\ hll \in {with_line_mapper_and_capacity(size) : size \in EngSizes}
    /\ rc = NewHashingLineCounter
    /\ seen = <<>>
    /\ collided = {}
    /\ before_reset = NoReset
    /\ counter_bits = 16
    /\ overflow_checks = FALSE
    /\ rc_seen = <<>>
    /\ rc_panicked = FALSE
    /\ TokIdle /\ CtorIdle /\ RunIdle

\* the line as the estimators count it
Mapped(line) == preprocess_line(line_mapper, line, <<>>).out

\* CountUnique::count_line(line) on each estimator
CountLine(line) ==
    /\ Len(seen) < MaxCalls
    /\ lc' = LineCounterCountLine(lc, line_mapper, line)
    /\ ne' = InexactCountLine(ne, hasher, line_mapper, line)
    /\ hll' = HllCountLine(hll, hasher, line_mapper, line)
    /\ rc' = ReportCountLine(rc, counter_bits, overflow_checks, line_mapper, line).st
    /\ seen' = Append(seen, line)
    /\ collided' =
          IF /\ Mapped(line) \notin {Mapped(seen[i]) : i \in 1..Len(seen)}
             /\ hasher[Mapped(line)] \in {hasher[Mapped(seen[i])] : i \in 1..Len(seen)}
          THEN collided \cup {Mapped(line)}
          ELSE collided
    /\ UNCHANGED <<line_mapper, hasher, before_reset>>
    /\ UNCHANGED <<counter_bits, overflow_checks, rc_seen, rc_panicked>>
    /\ UNCHANGED <<tokVars, ctorVars, runVars>>

\* CountUnique::reset() on each estimator
Reset ==
    /\ lc' = HashingLineCounterReset(lc)
    /\ ne' = InexactReset(ne)
    /\ hll' = HllReset(hll)
    /\ rc' = HashingLineCounterReset(rc)
    /\ seen' = <<>>
    /\ collided' = {}
    /\ before_reset' = HashingLineCounterCount(lc)
    /\ UNCHANGED <<line_mapper, hasher>>
    /\ UNCHANGED <<counter_bits, overflow_checks, rc_seen, rc_panicked>>
    /\ UNCHANGED <<tokVars, ctorVars, runVars>>

Next == (\E line \in EngLines : CountLine(line)) \/ Reset

Spec == Init /\ [][Next]_vars

(***************************************************************************)
(* Properties of the estimators                                            *)
(***************************************************************************)
\* the mapped lines counted since the last reset
SeenKeys == {Mapped(seen[i]) : i \in 1..Len(seen)}

\* their hashes
SeenHashes == {hasher[k] : k \in SeenKeys}

\* C4: fed the same lines in the same order with the same line mapper,
\* Exact.count() >= NearExact.count() after every step, with equality when no
\* two distinct mapped lines counted have the same hash.
C4_ExactAtLeastNearExact ==
    /\ HashingLineCounterCount(lc) >= InexactCount(ne)
    /\ (\A a, b \in SeenKeys : a # b => hasher[a] # hasher[b])
          => HashingLineCounterCount(lc) = InexactCount(ne)

\* two distinct lines collided and a third did not: Exact counts 3, NearExact 2
C4_Witness ==
    /\ HashingLineCounterCount(lc) = 3
    /\ InexactCount(ne) = 2
    /\ Len(seen) > 3

\* C5: NearExact.count() is the number of distinct hash values of the mapped
\* lines counted since the last reset, which is the number of distinct mapped
\* lines less one for each distinct line whose hash was already in the table
\* when it first came; a line whose hash is in the table changes neither the
\* table nor the count.
C5_NearExactCountsHashes ==
    /\ [](/\ InexactCount(ne) = Cardinality(SeenHashes)
          /\ ne.map = SeenHashes
          /\ InexactCount(ne) = Cardinality(SeenKeys) - Cardinality(collided))
    /\ [][\A line \in EngLines :
             (seen' = Append(seen, line) /\ hasher[Mapped(line)] \in ne.map)
                => (ne'.map = ne.map /\ ne'.count = ne.count)]_vars

\* a distinct line was dropped for its hash, after a reset
C5_Witness ==
    /\ collided # {}
    /\ Cardinality(SeenKeys) = 3
    /\ InexactCount(ne) < 3
    /\ before_reset > 0

\* the index and rho of a hash for b index bits, read off its bits: the
\* number the top b bits spell, and the place of the first 1 bit after them
\* (64 - b + 1 when there is none)
IndexOfHash(hash, b) ==
    LET RECURSIVE Weigh(_)
        Weigh(i) == IF i > b THEN 0 ELSE hash[i] * 2^(b - i) + Weigh(i + 1)
    IN  Weigh(1)

RhoOfHash(hash, b) ==
    LET set == {i \in (b + 1)..HashBits : hash[i] = 1}
    IN  IF set = {} THEN HashBits - b + 1
        ELSE (CHOOSE i \in set : \A j \in set : i <= j) - b

SetMax(S) == IF S = {} THEN 0 ELSE CHOOSE x \in S : \A y \in S : x >= y

\* C6: every HyperLogLog register i holds the maximum rho of the hashes
\* counted since the last reset whose index is i, or 0 without any; a
\* count_line call changes no register but the one at its index and never
\* lowers a register.
C6_RegistersHoldMaxRho ==
    /\ [](\A i \in DOMAIN hll.counters :
             hll.counters[i] =
                SetMax({RhoOfHash(h, hll.bits) : h \in {g \in SeenHashes : IndexOfHash(g, hll.bits) = i}}))
    /\ [][\A line \in EngLines :
             seen' = Append(seen, line) =>
                \A i \in DOMAIN hll.counters :
                   /\ hll'.counters[i] >= hll.counters[i]
                   /\ i # IndexOfHash(hasher[Mapped(line)], hll.bits)
                         => hll'.counters[i] = hll.counters[i]]_vars

\* a register that two hashes of different rho were routed to, the larger first
C6_Witness ==
    \E i \in DOMAIN hll.counters :
        /\ hll.counters[i] >= 2
        /\ Len(seen) >= 2
        /\ IndexOfHash(hasher[Mapped(seen[1])], hll.bits) = i
        /\ IndexOfHash(hasher[Mapped(seen[2])], hll.bits) = i
        /\ RhoOfHash(hasher[Mapped(seen[1])], hll.bits) > RhoOfHash(hasher[Mapped(seen[2])], hll.bits)

\* the lines in byte order
EngLineOrder == << <<>>, <<SP, LowerA>>, <<UpperA>>, <<LowerA>> >>

RECURSIVE SortedFrom(_, _)
\* the lines of s rearranged into byte order: one permutation of s
SortedFrom(s, i) ==
    IF i > Len(EngLineOrder) THEN <<>>
    ELSE SelectSeq(s, LAMBDA x : x = EngLineOrder[i]) \o SortedFrom(s, i + 1)

RECURSIVE InexactCountLines(_, _, _, _)
InexactCountLines(st, hash_one, mapper, lines) ==
    IF lines = <<>> THEN st
    ELSE InexactCountLines(InexactCountLine(st, hash_one, mapper, Head(lines)),
                           hash_one, mapper, Tail(lines))

RECURSIVE HllCountLines(_, _, _, _)
HllCountLines(st, hash_one, mapper, lines) ==
    IF lines = <<>> THEN st
    ELSE HllCountLines(HllCountLine(st, hash_one, mapper, Head(lines)),
                       hash_one, mapper, Tail(lines))

RECURSIVE ReportCountLines(_, _, _, _, _)
ReportCountLines(st, bits, checks, mapper, lines) ==
    IF lines = <<>> THEN st
    ELSE ReportCountLines(ReportCountLine(st, bits, checks, mapper, Head(lines)).st,
                          bits, checks, mapper, Tail(lines))

\* C8: the lines counted give, fed in another order to fresh estimators with
\* the same seeds, the same Exact and NearExact count() and the same
\* HyperLogLog registers. Every order is compared with the byte-sorted one,
\* so any two orders of the same lines agree.
C8_OrderIndependent ==
    LET sorted == SortedFrom(seen, 1)
    IN  /\ HashingLineCounterCount(lc) =
              HashingLineCounterCount(LineCounterCountLines(NewHashingLineCounter, line_mapper, sorted))
        /\ InexactCount(ne) =
              InexactCount(InexactCountLines(NewInexact, hasher, line_mapper, sorted))
        /\ hll.counters =
              HllCountLines(with_line_mapper_and_capacity(hll.size), hasher, line_mapper, sorted).counters

\* lines counted in an order that is not the sorted one, raising one register twice
C8_Witness ==
    /\ Len(seen) >= 3
    /\ seen # SortedFrom(seen, 1)
    /\ HashingLineCounterCount(lc) >= 2
    /\ \E i \in DOMAIN hll.counters : hll.counters[i] >= 4

\* C9: after reset() the estimators behave as fresh ones: processing an input
\* after a reset gives the count() (and the Exact report entries, and the
\* registers) that processing it on a fresh estimator gives, whatever was
\* counted before the reset.
C9_ResetThenSameResult ==
    /\ HashingLineCounterCount(lc) =
          HashingLineCounterCount(LineCounterCountLines(NewHashingLineCounter, line_mapper, seen))
    /\ DOMAIN lc.map = DOMAIN LineCounterCountLines(NewHashingLineCounter, line_mapper, seen).map
    /\ InexactCount(ne) = InexactCount(InexactCountLines(NewInexact, hasher, line_mapper, seen))
    /\ hll.counters =
          HllCountLines(with_line_mapper_and_capacity(hll.size), hasher, line_mapper, seen).counters
    /\ HashingLineCounterCount(rc) =
          HashingLineCounterCount(
              ReportCountLines(NewHashingLineCounter, counter_bits, overflow_checks, line_mapper, seen))
    /\ ReportEntries(rc) =
          ReportEntries(
              ReportCountLines(NewHashingLineCounter, counter_bits, overflow_checks, line_mapper, seen))

\* lines counted after a reset that found entries, registers and a scratch buffer in use
C9_Witness ==
    /\ before_reset >= 2
    /\ Len(seen) >= 2
    /\ line_mapper.lowercase
    /\ \E k \in DOMAIN rc.map : rc.map[k] >= 2

\* the counter field of each hashing estimator is the size of its table
CountIsTableSize(exact, report, inexact) ==
    /\ HashingLineCounterCount(exact) = Cardinality(DOMAIN exact.map)
    /\ HashingLineCounterCount(report) = Cardinality(DOMAIN report.map)
    /\ InexactCount(inexact) = Cardinality(inexact.map)

\* C27: after any sequence of count_line and reset calls, count() of Exact
\* (in count and in report mode) and of NearExact is the number of entries of
\* the table: a count_line that inserts an entry raises count() by exactly
\* one, a count_line that hits an entry leaves it unchanged, and reset
\* empties the table and sets count() to 0 together.
C27_CountIsTableEntries ==
    /\ CountIsTableSize(lc, rc, ne)
    /\ [][/\ CountIsTableSize(lc', rc', ne')
          /\ IF seen' = <<>>
             THEN /\ HashingLineCounterCount(lc') = 0 /\ DOMAIN lc'.map = {}
                  /\ HashingLineCounterCount(rc') = 0 /\ DOMAIN rc'.map = {}
                  /\ InexactCount(ne') = 0 /\ ne'.map = {}
             ELSE LET key == Mapped(seen'[Len(seen')])
                  IN  /\ DOMAIN lc'.map = DOMAIN lc.map \cup {key}
                      /\ HashingLineCounterCount(lc') - HashingLineCounterCount(lc) =
                            IF key \in DOMAIN lc.map THEN 0 ELSE 1
                      /\ DOMAIN rc'.map = DOMAIN rc.map \cup {key}
                      /\ HashingLineCounterCount(rc') - HashingLineCounterCount(rc) =
                            IF key \in DOMAIN rc.map THEN 0 ELSE 1
                      /\ ne'.map = ne.map \cup {hasher[key]}
                      /\ InexactCount(ne') - InexactCount(ne) =
                            IF hasher[key] \in ne.map THEN 0 ELSE 1]_vars

\* a line was counted twice and another once, two of them with one hash: the
\* exact tables hold two entries and the near-exact table one
C27_Witness ==
    /\ Len(seen) = 3
    /\ HashingLineCounterCount(lc) = 2 /\ Cardinality(DOMAIN lc.map) = 2
    /\ HashingLineCounterCount(rc) = 2 /\ \E k \in DOMAIN rc.map : rc.map[k] = 2
    /\ InexactCount(ne) = 1 /\ Cardinality(ne.map) = 1

(***************************************************************************)
(* SpecReport: the reporting Exact counter with a u8 or u16 counter, fed   *)
(* the same line often enough for the counter to reach its maximum         *)
(***************************************************************************)
MaxReportCalls == 257

RepLines == {<<LowerA>>, <<UpperA>>}

\* calls made since the last reset
RepCalls == rc_seen[<<LowerA>>] + rc_seen[<<UpperA>>]

RepInit ==
    /\ line_mapper \in {m \in LineMappers : ~m.trim}
    /\ counter_bits \in CounterWidths
    /\ overflow_checks \in BOOLEAN
    /\ rc = NewHashingLineCounter
    /\ rc_seen = [k \in RepLines |-> 0]
    /\ rc_panicked = FALSE
    /\ hasher = <<>>
    /\ lc = Unset
    /\ ne = Unset
    /\ hll = Unset
    /\ seen = <<>>
    /\ collided = {}
    /\ before_reset = NoReset
    /\ TokIdle /\ CtorIdle /\ RunIdle

\* CountUnique::count_line(line); rc_seen counts the calls by mapped line
RepCountLine(line) ==
    /\ ~rc_panicked
    /\ RepCalls < MaxReportCalls
    /\ LET r == ReportCountLine(rc, counter_bits, overflow_checks, line_mapper, line)
       IN  /\ rc' = r.st
           /\ rc_panicked' = r.panic
    /\ rc_seen' = [rc_seen EXCEPT ![Mapped(line)] = @ + 1]
    /\ UNCHANGED <<line_mapper, hasher, lc, ne, hll, seen, collided, before_reset>>
    /\ UNCHANGED <<counter_bits, overflow_checks>>
    /\ UNCHANGED <<tokVars, ctorVars, runVars>>

\* CountUnique::reset()
RepReset ==
    /\ ~rc_panicked
    /\ rc' = HashingLineCounterReset(rc)
    /\ rc_seen' = [k \in RepLines |-> 0]
    /\ UNCHANGED <<line_mapper, hasher, lc, ne, hll, seen, collided, before_reset>>
    /\ UNCHANGED <<counter_bits, overflow_checks, rc_panicked>>
    /\ UNCHANGED <<tokVars, ctorVars, runVars>>

RepNext == (\E line \in RepLines : RepCountLine(line)) \/ RepReset

SpecReport == RepInit /\ [][RepNext]_vars

\* the largest value of the counter type
CounterMax == 2^counter_bits - 1

\* C3 as claimed: in the reporting Exact counter the counter stored for
\* every key K is the number of count_line calls since the last reset whose
\* mapped line is K, for every counter width and any number of occurrences.
C3_CounterIsOccurrences ==
    \A k \in RepLines :
        /\ k \in DOMAIN rc.map <=> rc_seen[k] > 0
        /\ k \in DOMAIN rc.map => rc.map[k] = rc_seen[k]

\* C3 as amended: the counter of K is the number of occurrences of K as long
\* as that number is at most the largest value of the counter type; the
\* occurrence after that overflows the counter, which panics in a build that
\* checks overflow and otherwise wraps to 0, so that the counter is the
\* number of occurrences modulo 2^width.
C3_CounterIsOccurrencesUpToMax ==
    \A k \in RepLines :
        /\ k \in DOMAIN rc.map <=> rc_seen[k] > 0
        /\ (k \in DOMAIN rc.map /\ rc_seen[k] <= CounterMax) => rc.map[k] = rc_seen[k]
        /\ (k \in DOMAIN rc.map /\ rc_seen[k] > CounterMax) =>
              IF overflow_checks
              THEN rc_panicked /\ rc.map[k] = CounterMax /\ rc_seen[k] = CounterMax + 1
              ELSE rc.map[k] = rc_seen[k] % (CounterMax + 1)
        /\ rc_panicked => \E j \in RepLines : rc_seen[j] > CounterMax

\* a u8 counter at its largest value and a second key counted twice
C3_Witness ==
    /\ counter_bits = 8
    /\ line_mapper.lowercase = FALSE
    /\ rc.map = [k \in RepLines |-> IF k = <<LowerA>> THEN 255 ELSE 2]
    /\ rc_seen[<<LowerA>>] = 255

(***************************************************************************)
(* SpecCtor: HyperLogLog construction with every size up to MaxCtorSize    *)
(***************************************************************************)
MaxCtorSize == 70

CtorInit ==
    /\ ctor_fn = "none"
    /\ ctor_size = 0
    /\ ctor_result = Unset
    /\ ctor_count = NoCount
    /\ TokIdle /\ EngIdle /\ RepIdle /\ RunIdle

\* HyperLogLog::with_capacity(size)
WithCapacity(size) ==
    /\ ctor_fn = "none"
    /\ ctor_fn' = "with_capacity"
    /\ ctor_size' = size
    /\ ctor_result' = with_line_mapper_and_capacity(size)
    /\ UNCHANGED <<ctor_count, tokVars, engVars, repVars, runVars>>

\* HyperLogLog::with_line_mapper_and_capacity(line_mapper, size)
WithLineMapperAndCapacity(size) ==
    /\ ctor_fn = "none"
    /\ ctor_fn' = "with_line_mapper_and_capacity"
    /\ ctor_size' = size
    /\ ctor_result' = with_line_mapper_and_capacity(size)
    /\ UNCHANGED <<ctor_count, tokVars, engVars, repVars, runVars>>

CtorNext ==
    \E size \in 0..MaxCtorSize : WithCapacity(size) \/ WithLineMapperAndCapacity(size)

SpecCtor == CtorInit /\ [][CtorNext]_vars

\* n is a power of two: n >= 1 and every divisor of n above 1 is even
IsPowerOfTwo(n) == n >= 1 /\ \A d \in 2..n : n % d = 0 => d % 2 = 0

MaxFiles == 2

\* --size absent
NoSize == 0 - 1

\* the input field of an io_log entry that is not about an input
NoInput == 0 - 1

DEFAULT_SIZE == 65536

Modes == {"exact", "near-exact", "estimate"}

\* the file system: two files, and a path that cannot be opened
FileA == <<LowerB, LF, LowerA>>
FileB == <<LowerA, CR, LF, LowerB, LF>>
Paths == {"f1", "f2", "missing"}
FileBytes(path) == IF path = "f1" THEN FileA ELSE FileB
Openable(path) == path # "missing"

\* what stdin may hold
StdinContents == {<<>>, <<LowerA, LF>>, <<LowerA, CR, LF, LF, LowerB>>}

\* the builds: cargo feature memmap and cfg(unix)
Builds == {[memmap |-> TRUE, unix |-> TRUE], [memmap |-> TRUE, unix |-> FALSE],
           [memmap |-> FALSE, unix |-> TRUE]}

\* io::ErrorKind of a failed read, memory map or write
ErrorKinds == {"BrokenPipe", "Other"}

\* the keyed hash of the run's estimator, over the lines the inputs hold
RunLines == {<<>>, <<LowerA>>, <<LowerB>>, <<LowerA, CR>>}
RunHasher ==
    [l \in RunLines |->
        IF l = <<>> THEN MkHash(<<0, 0, 0, 1>>, 0) ELSE IF l = <<LowerA>> THEN EngHash1
        ELSE IF l = <<LowerB>> THEN MkHash(<<1, 0, 1, 0>>, 2) ELSE MkHash(<<1, 1, 1, 1, 0>>, 2)]

\* a coercion that leaves the size as it is
previous_power_of_2_Identity(n) == n

\* 1usize << k, for k < UsizeBits
ShiftLeftOne(k) == Zeros(UsizeBits - 1 - k) \o <<1>> \o Zeros(k)

\* previous_power_of_2
previous_power_of_2(n) ==
    IF n = Usize(0)
    THEN Usize(0)
    ELSE LET zeros == leading_zeros(n)
         IN  ShiftLeftOne(UsizeBits - zeros - 1)

\* usize::max(16, size)
AtLeast16(size) == IF UsizeLess(size, Usize(MinSize)) THEN Usize(MinSize) ELSE size

\* the estimator report() or count() constructs
ProcessorKind(a) ==
    IF a.report THEN "report"
    ELSE IF a.mode = "exact" THEN "exact"
    ELSE IF a.mode = "near-exact" THEN "near-exact" ELSE "estimate"

EstimateSize(a) ==
    IF a.size # NoSize
    THEN UsizeValue(previous_power_of_2(AtLeast16(Usize(a.size))))
    ELSE DEFAULT_SIZE

\* the errors of result.rs
ErrorIo(message, kind) == [message |-> message, cause |-> <<"Io", kind>>]
ErrorMessage(message) == [message |-> message, cause |-> <<"User">>]

STDOUT_ERROR_MESSAGE == <<"failed to write to stdout">>

\* run_with_const_parameters on Err(e): the lines written to stderr
ErrorOutput(e) ==
    IF e.cause[1] = "Io"
    THEN IF e.cause[2] = "BrokenPipe" THEN <<>> ELSE <<<<e.message, e.cause[2]>>>>
    ELSE <<<<e.message>>>>

\* the run ends with Err(e)
Fail(e) ==
    /\ pc' = "done"
    /\ stderr' = stderr \o ErrorOutput(e)
    /\ exit_code' = "FAILURE"

\* a panic of the main thread: the panic message and the backtrace note on
\* stderr, and the exit status of a panicked process
Panic(message) ==
    /\ pc' = "done"
    /\ stderr' = stderr \o <<<<"thread 'main' panicked", message>>, <<"note: run with RUST_BACKTRACE=1">>>>
    /\ exit_code' = "PANIC"

\* an entry of the history of I/O: the result is "Ok" or the io::ErrorKind
IoEvent(op, input, result) == [op |-> op, input |-> input, result |-> result]

RunInit ==
    /\ args \in {a \in [files : SeqsUpTo(Paths, MaxFiles), report : BOOLEAN, sort : BOOLEAN,
                        trim : {FALSE}, lowercase : {FALSE}, mode : Modes,
                        size : {NoSize, 0, 20}, no_stdin : BOOLEAN,
                        memmap : BOOLEAN, no_memmap : BOOLEAN] :
                    /\ a.mode = "estimate" <=> a.size # NoSize
                    /\ a.size = 0 => ~a.memmap /\ ~a.no_memmap
                    /\ a.sort => a.report /\ a.mode = "exact"
                    /\ a.report /\ a.mode # "exact" => ~a.memmap /\ ~a.no_memmap}
    /\ env \in [stdin_terminal : BOOLEAN, stdin : StdinContents, build : Builds]
    /\ feature_memchr \in BOOLEAN
    /\ pc = "start"
    /\ files = <<>>
    /\ cursor = [file |-> 0, line |-> 0, adapter |-> "none"]
    /\ run_calls = <<>>
    /\ stdout = <<>>
    /\ stderr = <<>>
    /\ exit_code = Unset
    /\ io_log = <<>>
    /\ line_mapper = NoMapper
    /\ hasher = RunHasher
    /\ lc = Unset
    /\ ne = Unset
    /\ hll = Unset
    /\ rc = Unset
    /\ seen = <<>>
    /\ collided = {}
    /\ before_reset = NoReset
    /\ counter_bits = 64
    /\ overflow_checks = FALSE
    /\ rc_seen = <<>>
    /\ rc_panicked = FALSE
    /\ tok_input = <<>>
    /\ read_done = FALSE
    /\ read_calls = <<>>
    /\ read_count = 0
    /\ bytes_done = FALSE
    /\ bytes_calls = <<>>
    /\ bytes_count = 0
    /\ CtorIdle
    /\ PreIdle

runFrame == <<tokVars, ctorVars, preVars, args, env, line_mapper, hasher, seen, collided,
              before_reset, counter_bits, overflow_checks, rc_seen, rc_panicked>>

\* a mutant of ReportSupported: every mode reports
ReportSupported_Any(mode) == TRUE

\* report(): the modes with a report
ReportSupported(mode) == mode = "exact"

\* report() and count() up to process_input: --report with another mode than
\* exact is refused, otherwise the estimator is constructed
Dispatch ==
    /\ pc = "start"
    /\ IF args.report /\ ~ReportSupported(args.mode)
       THEN /\ Fail(ErrorMessage(<<args.mode, "mode cannot generate cardinality reports">>))
            /\ UNCHANGED <<lc, ne, hll, rc>>
       ELSE IF ProcessorKind(args) = "estimate"
               /\ ~with_line_mapper_and_capacity(EstimateSize(args)).ok
       THEN /\ Fail([message |-> with_line_mapper_and_capacity(EstimateSize(args)).message,
                     cause |-> with_line_mapper_and_capacity(EstimateSize(args)).cause])
            /\ UNCHANGED <<lc, ne, hll, rc>>
       ELSE /\ pc' = "open_files"
            /\ lc' = IF ProcessorKind(args) = "exact" THEN NewHashingLineCounter ELSE lc
            /\ rc' = IF ProcessorKind(args) = "report" THEN NewHashingLineCounter ELSE rc
            /\ ne' = IF ProcessorKind(args) = "near-exact" THEN NewInexact ELSE ne
            /\ hll' = IF ProcessorKind(args) = "estimate"
                      THEN with_line_mapper_and_capacity(EstimateSize(args)) ELSE hll
            /\ UNCHANGED <<stderr, exit_code>>
    /\ UNCHANGED <<files, cursor, run_calls, stdout, io_log>>
    /\ UNCHANGED runFrame

\* a mutant of OpenErrorMessage: the path is left out
OpenErrorMessage_NoPath(path) == <<"error opening file">>

\* format!("error opening file \"{}\"", path.display())
OpenErrorMessage(path) == <<"error opening file", path>>

\* the first path File::open fails on, or 0
FirstUnopenable(paths) ==
    IF \A i \in 1..Len(paths) : Openable(paths[i]) THEN 0
    ELSE CHOOSE i \in 1..Len(paths) :
             /\ ~Openable(paths[i])
             /\ \A j \in 1..(i - 1) : Openable(paths[j])

\* process_input: pre-open all files; the first that fails ends the run
OpenFiles ==
    /\ pc = "open_files"
    /\ IF FirstUnopenable(args.files) # 0
       THEN /\ Fail(ErrorIo(OpenErrorMessage(args.files[FirstUnopenable(args.files)]), "NotFound"))
            /\ io_log' = io_log \o [i \in 1..FirstUnopenable(args.files) |->
                                       IoEvent("open", i, IF i # FirstUnopenable(args.files)
                                                         THEN "Ok" ELSE "NotFound")]
            /\ UNCHANGED <<files, cursor>>
       ELSE /\ files' = [i \in 1..Len(args.files) |-> [arg |-> i, path |-> args.files[i]]]
            /\ io_log' = io_log \o [i \in 1..Len(args.files) |-> IoEvent("open", i, "Ok")]
            /\ pc' = "stdin"
            /\ cursor' = [file |-> 0, line |-> 1, adapter |-> "read"]
            /\ UNCHANGED <<stderr, exit_code>>
    /\ UNCHANGED <<lc, ne, hll, rc, run_calls, stdout>>
    /\ UNCHANGED runFrame

\* process_stdin reads stdin at all
StdinIsRead == ~args.no_stdin /\ ~env.stdin_terminal

\* count_line(line) on the run's estimator; the history notes the input, the
\* place of the line in it and the number of lines the input has
RunCountLine(input, idx, of, line) ==
    /\ lc' = IF ProcessorKind(args) = "exact"
             THEN LineCounterCountLine(lc, line_mapper, line) ELSE lc
    /\ rc' = IF ProcessorKind(args) = "report"
             THEN ReportCountLine(rc, counter_bits, overflow_checks, line_mapper, line).st ELSE rc
    /\ ne' = IF ProcessorKind(args) = "near-exact"
             THEN InexactCountLine(ne, hasher, line_mapper, line) ELSE ne
    /\ hll' = IF ProcessorKind(args) = "estimate"
              THEN HllCountLine(hll, hasher, line_mapper, line) ELSE hll
    /\ run_calls' = Append(run_calls, [input |-> input, idx |-> idx, of |-> of, line |-> line])

\* process_stdin: one line of count_unique_in_read(stdin_handle)
ProcessStdinLine ==
    /\ pc = "stdin"
    /\ StdinIsRead
    /\ cursor.line <= Len(ReadLines(env.stdin))
    /\ RunCountLine(0, cursor.line, Len(ReadLines(env.stdin)), ReadLines(env.stdin)[cursor.line])
    /\ io_log' = Append(io_log, IoEvent("read", 0, "Ok"))
    /\ cursor' = [cursor EXCEPT !.line = @ + 1]
    /\ UNCHANGED <<pc, files, stdout, stderr, exit_code>>
    /\ UNCHANGED runFrame

\* process_stdin: a read of stdin fails, and count_unique_in_read returns
\* Error::io_static("failed to read from buffer", e)
ProcessStdinFail ==
    /\ pc = "stdin"
    /\ StdinIsRead
    /\ \E kind \in ErrorKinds :
          /\ Fail(ErrorIo(<<"failed to read from buffer">>, kind))
          /\ io_log' = Append(io_log, IoEvent("read", 0, kind))
    /\ UNCHANGED <<lc, ne, hll, rc, files, cursor, run_calls, stdout>>
    /\ UNCHANGED runFrame

\* the adapter process_input reads the files with, or "unsupported" for
\* --memmap in a build without memmap
FileAdapter(a, build) ==
    IF build.memmap
    THEN IF a.no_memmap THEN "read"
         ELSE IF a.memmap THEN "memmap"
         ELSE IF build.unix THEN "memmap" ELSE "read"
    ELSE IF a.memmap THEN "unsupported" ELSE "read"

\* the cursor at the start of a file: a file read through a memory map is
\* mapped (line 0) before its first line
FileStart(k, adapter) ==
    [file |-> k, line |-> IF adapter = "memmap" THEN 0 ELSE 1, adapter |-> adapter]

\* process_stdin returns (stdin skipped or at its end) and process_input
\* chooses how to read the files
ProcessStdinDone ==
    /\ pc = "stdin"
    /\ ~StdinIsRead \/ cursor.line > Len(ReadLines(env.stdin))
    /\ io_log' = IF StdinIsRead THEN Append(io_log, IoEvent("read", 0, "Ok")) ELSE io_log
    /\ IF FileAdapter(args, env.build) = "unsupported"
       THEN /\ Fail(ErrorMessage(<<"This cuniq binary was compiled without memmap support">>))
            /\ UNCHANGED cursor
       ELSE /\ pc' = "files"
            /\ cursor' = FileStart(1, FileAdapter(args, env.build))
            /\ UNCHANGED <<stderr, exit_code>>
    /\ UNCHANGED <<lc, ne, hll, rc, files, run_calls, stdout>>
    /\ UNCHANGED runFrame

\* a mutant of FileToProcess: the files are taken last to first
FileToProcess_Reversed(opened, k) == opened[Len(opened) + 1 - k]

\* `for file in files`: the file of the k-th iteration
FileToProcess(opened, k) == opened[k]

\* the lines the adapter in use gives for a file
FileLines(file) ==
    IF cursor.adapter = "memmap"
    THEN BytesLines(feature_memchr, FileBytes(file.path))
    ELSE ReadLines(FileBytes(file.path))

\* the steps of count_unique_in_memmap_file that can fail: Mmap::map and,
\* on unix, the two advise calls
MemmapSteps(build) ==
    {<<"failed to memmap file">>}
    \cup (IF build.unix
          THEN {<<"failed to set memmap file to WillNeed mode">>,
                <<"failed to set memmap file to Sequential mode">>}
          ELSE {})

\* count_unique_in_memmap_file: the file is mapped and advised, or one of
\* these steps fails
MemmapFile ==
    /\ pc = "files"
    /\ cursor.file <= Len(files)
    /\ cursor.line = 0
    /\ \/ /\ cursor' = [cursor EXCEPT !.line = 1]
          /\ io_log' = Append(io_log, IoEvent("mmap", FileToProcess(files, cursor.file).arg, "Ok"))
          /\ UNCHANGED <<pc, stderr, exit_code>>
       \/ /\ \E kind \in ErrorKinds, step \in MemmapSteps(env.build) :
                /\ Fail(ErrorIo(step, kind))
                /\ io_log' = Append(io_log, IoEvent("mmap", FileToProcess(files, cursor.file).arg, kind))
          /\ UNCHANGED cursor
    /\ UNCHANGED <<lc, ne, hll, rc, files, run_calls, stdout>>
    /\ UNCHANGED runFrame

\* count_unique_in_file / count_unique_in_memmap_file: one line
ProcessFileLine ==
    /\ pc = "files"
    /\ cursor.file <= Len(files)
    /\ cursor.line >= 1
    /\ LET file == FileToProcess(files, cursor.file)
       IN  /\ cursor.line <= Len(FileLines(file))
           /\ RunCountLine(file.arg, cursor.line, Len(FileLines(file)), FileLines(file)[cursor.line])
           /\ io_log' = IF cursor.adapter = "read"
                        THEN Append(io_log, IoEvent("read", file.arg, "Ok")) ELSE io_log
    /\ cursor' = [cursor EXCEPT !.line = @ + 1]
    /\ UNCHANGED <<pc, files, stdout, stderr, exit_code>>
    /\ UNCHANGED runFrame

\* count_unique_in_file: a read of the file fails
ProcessFileFail ==
    /\ pc = "files"
    /\ cursor.file <= Len(files)
    /\ cursor.adapter = "read"
    /\ \E kind \in ErrorKinds :
          /\ Fail(ErrorIo(<<"failed to read from buffer">>, kind))
          /\ io_log' = Append(io_log, IoEvent("read", FileToProcess(files, cursor.file).arg, kind))
    /\ UNCHANGED <<lc, ne, hll, rc, files, cursor, run_calls, stdout>>
    /\ UNCHANGED runFrame

\* the end of a file: the loop goes on with the next one
ProcessFileDone ==
    /\ pc = "files"
    /\ cursor.file <= Len(files)
    /\ cursor.line >= 1
    /\ cursor.line > Len(FileLines(FileToProcess(files, cursor.file)))
    /\ io_log' = IF cursor.adapter = "read"
                 THEN Append(io_log, IoEvent("read", FileToProcess(files, cursor.file).arg, "Ok"))
                 ELSE io_log
    /\ cursor' = FileStart(cursor.file + 1, cursor.adapter)
    /\ UNCHANGED <<pc, lc, ne, hll, rc, files, run_calls, stdout, stderr, exit_code>>
    /\ UNCHANGED runFrame

\* the end of the loop over the files: process_input returns Ok
ProcessInputDone ==
    /\ pc = "files"
    /\ cursor.file > Len(files)
    /\ pc' = "output"
    /\ UNCHANGED <<cursor, lc, ne, hll, rc, files, run_calls, stdout, stderr, exit_code, io_log>>
    /\ UNCHANGED runFrame

\* the byte of the digit 0
Digit0 == 48

RECURSIVE Decimal(_)
\* Display for an unsigned integer: its decimal digits
Decimal(n) == IF n < 10 THEN <<Digit0 + n>> ELSE Decimal(n \div 10) \o <<Digit0 + (n % 10)>>

\* the width of the count column of a report row
CountWidth == 7

\* format "{count:7}": the digits, padded with spaces on the left to 7 columns
FormatCount7(count) ==
    [i \in 1..(CountWidth - Len(Decimal(count))) |-> SP] \o Decimal(count)

\* a mutant of PrintLine: no newline
PrintLine_NoNewline(bytes) == bytes

\* println! / writeln!: the bytes and a newline
PrintLine(bytes) == bytes \o <<LF>>

\* write_line: the bytes of one report row
write_line(line, count) == FormatCount7(count) \o <<SP>> \o PrintLine(line)

\* processor.count() of the estimator of the run
ProcessorCount ==
    IF ProcessorKind(args) = "exact" THEN HashingLineCounterCount(lc)
    ELSE IF ProcessorKind(args) = "report" THEN HashingLineCounterCount(rc)
    ELSE IF ProcessorKind(args) = "near-exact" THEN InexactCount(ne)
    ELSE HllCount(hll)

\* count(): println!("{}", processor.count()); a failed write makes println!
\* panic
PrintCount ==
    /\ pc = "output"
    /\ ~args.report
    /\ \/ /\ stdout' = stdout \o PrintLine(Decimal(ProcessorCount))
          /\ io_log' = Append(io_log, IoEvent("write", NoInput, "Ok"))
          /\ pc' = "done"
          /\ exit_code' = "SUCCESS"
          /\ UNCHANGED stderr
       \/ /\ \E kind \in ErrorKinds :
                /\ Panic(<<"failed printing to stdout", kind>>)
                /\ io_log' = Append(io_log, IoEvent("write", NoInput, kind))
          /\ UNCHANGED stdout
    /\ UNCHANGED <<cursor, lc, ne, hll, rc, files, run_calls>>
    /\ UNCHANGED runFrame

\* the orders a hash map can iterate its entries in
IterationOrders(entries) ==
    {order \in [1..Cardinality(entries) -> entries] :
        \A i, j \in 1..Cardinality(entries) : i # j => order[i] # order[j]}

RECURSIVE BstrLess(_, _)
\* a.as_bstr().cmp(b.as_bstr()) = Less: byte-wise lexicographic order
BstrLess(a, b) ==
    IF b = <<>> THEN FALSE
    ELSE IF a = <<>> THEN TRUE
    ELSE IF a[1] # b[1] THEN a[1] < b[1]
    ELSE BstrLess(Tail(a), Tail(b))

RECURSIVE SortInsert(_, _)
SortInsert(sorted, entry) ==
    IF sorted = <<>> THEN <<entry>>
    ELSE IF BstrLess(entry[1], sorted[1][1]) THEN <<entry>> \o sorted
    ELSE <<sorted[1]>> \o SortInsert(Tail(sorted), entry)

\* a mutant of sort_unstable_by: the vector is left as it is
sort_unstable_by_Nothing(report) == report

RECURSIVE sort_unstable_by(_)
\* report.sort_unstable_by(|(a, _), (b, _)| a.cmp(b))
sort_unstable_by(report) ==
    IF report = <<>> THEN <<>>
    ELSE SortInsert(sort_unstable_by(SubSeq(report, 1, Len(report) - 1)), report[Len(report)])

RECURSIVE WriteLines(_)
\* write_line for each entry, in order
WriteLines(report) ==
    IF report = <<>> THEN <<>>
    ELSE write_line(report[1][1], report[1][2]) \o WriteLines(Tail(report))

\* report() after process_input: the rows go through a BufWriter to stdout,
\* sorted for --sort and in the iteration order of the map otherwise; a write
\* that fails leaves the rows before it on stdout and ends the run with
\* Error::io_static(STDOUT_ERROR_MESSAGE, e)
WriteReport ==
    /\ pc = "output"
    /\ args.report
    /\ \E order \in IterationOrders(ReportEntries(rc)) :
          LET report == IF args.sort THEN sort_unstable_by(order) ELSE order
          IN  \/ /\ stdout' = stdout \o WriteLines(report)
                 /\ io_log' = Append(io_log, IoEvent("write", NoInput, "Ok"))
                 /\ pc' = "done"
                 /\ exit_code' = "SUCCESS"
                 /\ UNCHANGED stderr
              \/ /\ report # <<>>
                 /\ \E kind \in ErrorKinds, written \in 0..(Len(report) - 1) :
                       /\ stdout' = stdout \o WriteLines(SubSeq(report, 1, written))
                       /\ Fail(ErrorIo(STDOUT_ERROR_MESSAGE, kind))
                       /\ io_log' = Append(io_log, IoEvent("write", NoInput, kind))
    /\ UNCHANGED <<cursor, lc, ne, hll, rc, files, run_calls>>
    /\ UNCHANGED runFrame

RunNext ==
    \/ Dispatch
    \/ OpenFiles
    \/ ProcessStdinLine
    \/ ProcessStdinFail
    \/ ProcessStdinDone
    \/ MemmapFile
    \/ ProcessFileLine
    \/ ProcessFileFail
    \/ ProcessFileDone
    \/ ProcessInputDone
    \/ PrintCount
    \/ WriteReport

SpecRun == RunInit /\ [][RunNext]_vars

\* the bytes of input k: stdin is input 0 and the k-th file argument is
\* input k
InputBytes(k) == IF k = 0 THEN env.stdin ELSE FileBytes(args.files[k])

\* the number of lines of input k, none for a stdin that is not read
InputLineCount(k) ==
    IF k = 0 /\ ~StdinIsRead THEN 0 ELSE Len(BytesLines(TRUE, InputBytes(k)))

\* the n-th line of input k in stream order, as either adapter gives it
InputLine(k, n) == {BytesLines(TRUE, InputBytes(k))[n], ReadLines(InputBytes(k))[n]}

\* C10: count_line is called with the lines of stdin first (where stdin is
\* read), in stream order, then with the lines of each file in stream order,
\* the files in argument order; no line of a later input is counted before
\* the last line of an earlier one.
C10_InputsInOrder ==
    /\ \A i \in 1..Len(run_calls) :
          LET c == run_calls[i]
          IN  /\ c.input = 0 => StdinIsRead
              /\ c.of = InputLineCount(c.input)
              /\ c.idx \in 1..c.of
              /\ c.line \in InputLine(c.input, c.idx)
              /\ IF i = 1
                 THEN c.idx = 1 /\ \A k \in 0..(c.input - 1) : InputLineCount(k) = 0
                 ELSE LET b == run_calls[i - 1]
                      IN  \/ c.input = b.input /\ c.idx = b.idx + 1
                          \/ /\ c.input > b.input
                             /\ c.idx = 1
                             /\ b.idx = b.of
                             /\ \A k \in (b.input + 1)..(c.input - 1) : InputLineCount(k) = 0
    /\ pc = "output" =>
          /\ \A k \in 0..Len(args.files) :
                InputLineCount(k) > 0 => \E i \in 1..Len(run_calls) :
                    run_calls[i].input = k /\ run_calls[i].idx = InputLineCount(k)

\* stdin and two different files, each with lines, have all been counted
C10_Witness ==
    /\ pc = "output"
    /\ args.files = <<"f2", "f1">>
    /\ Len(run_calls) = 7
    /\ run_calls[1].input = 0
    /\ run_calls[4].input = 1
    /\ run_calls[7].input = 2

\* the positions in the history of the events of the given operations
IoEventsOf(ops) == {i \in 1..Len(io_log) : io_log[i].op \in ops}

\* C11: every file argument is opened before stdin or any file is read; if
\* an open fails, the run ends with an I/O error whose message names the
\* path that failed, no count_line call has been made, stdin has not been
\* read and stdout is empty.
C11_OpenAllBeforeReading ==
    /\ \A i \in IoEventsOf({"open"}), j \in IoEventsOf({"read", "mmap", "write"}) : i < j
    /\ IoEventsOf({"read", "mmap"}) # {} \/ run_calls # <<>> =>
          \A k \in 1..Len(args.files) :
              \E i \in IoEventsOf({"open"}) : io_log[i].input = k /\ io_log[i].result = "Ok"
    /\ pc \in {"stdin", "files", "output"} => \A k \in 1..Len(args.files) : Openable(args.files[k])
    /\ \A i \in IoEventsOf({"open"}) :
          io_log[i].result # "Ok" =>
              /\ pc = "done"
              /\ exit_code = "FAILURE"
              /\ Len(stderr) = 1
              /\ Len(stderr[1]) = 2
              /\ args.files[io_log[i].input] \in Range(stderr[1][1])
              /\ ~Openable(args.files[io_log[i].input])
              /\ run_calls = <<>>
              /\ IoEventsOf({"read", "mmap", "write"}) = {}
              /\ stdout = <<>>

\* the second file argument could not be opened, in a run that had a stdin
\* with lines to read and a first file that opened
C11_Witness ==
    /\ pc = "done"
    /\ Len(args.files) = 2
    /\ Openable(args.files[1])
    /\ Len(io_log) = 2
    /\ io_log[2].result = "NotFound"
    /\ StdinIsRead
    /\ env.stdin # <<>>

RECURSIVE ParseDecimal(_)
\* the number a sequence of digit bytes stands for
ParseDecimal(bytes) ==
    IF bytes = <<>> THEN 0
    ELSE 10 * ParseDecimal(SubSeq(bytes, 1, Len(bytes) - 1)) + (bytes[Len(bytes)] - 48)

\* bytes are the decimal digits of n, without sign, space or leading zero
IsDecimalOf(bytes, n) ==
    /\ Len(bytes) >= 1
    /\ \A i \in 1..Len(bytes) : bytes[i] \in 48..57
    /\ Len(bytes) > 1 => bytes[1] # 48
    /\ ParseDecimal(bytes) = n

RECURSIVE TotalLines(_)
\* the number of lines of the inputs 0..k
TotalLines(k) == IF k < 0 THEN 0 ELSE InputLineCount(k) + TotalLines(k - 1)

\* the distinct lines counted in the run
CountedLines == {run_calls[i].line : i \in 1..Len(run_calls)}

\* C12: in count mode stdout stays empty until stdin and every file have
\* been processed; a successful run writes exactly one line, the decimal
\* count() and a newline; a run in which an input fails writes nothing.
C12_CountModePrintsOnceAtEnd ==
    ~args.report =>
        /\ pc # "done" => stdout = <<>>
        /\ exit_code # "SUCCESS" => stdout = <<>>
        /\ (\E i \in 1..Len(io_log) : io_log[i].result # "Ok") => stdout = <<>>
        /\ exit_code = "SUCCESS" =>
              /\ Len(run_calls) = TotalLines(Len(args.files))
              /\ Len(stdout) >= 2
              /\ stdout[Len(stdout)] = LF
              /\ IsDecimalOf(SubSeq(stdout, 1, Len(stdout) - 1), ProcessorCount)
              /\ args.mode = "exact" => ProcessorCount = Cardinality(CountedLines)

\* an estimate was printed after stdin and two files were counted
C12_Witness ==
    /\ ~args.report
    /\ args.mode = "estimate"
    /\ exit_code = "SUCCESS"
    /\ Len(run_calls) = 7
    /\ Len(stdout) = 2
    /\ stdout[1] > 50

\* C13: --report with the mode near-exact or estimate fails with a user
\* message error saying the mode cannot generate reports, with a nonzero
\* exit code, before any file is opened, stdin is read, count_line is
\* called or anything is written to stdout.
C13_ReportNeedsExact ==
    args.report /\ args.mode \in {"near-exact", "estimate"} /\ pc # "start" =>
        /\ pc = "done"
        /\ exit_code = "FAILURE"
        /\ Len(stderr) = 1
        /\ stderr[1] = <<<<args.mode, "mode cannot generate cardinality reports">>>>
        /\ io_log = <<>>
        /\ files = <<>>
        /\ run_calls = <<>>
        /\ stdout = <<>>

\* a refused --report run that had files to open and a stdin to read
C13_Witness ==
    /\ args.report
    /\ args.mode = "estimate"
    /\ pc = "done"
    /\ Len(args.files) = 2
    /\ StdinIsRead
    /\ env.stdin # <<>>

\* the run ended with an error that is not an I/O error: the one line on
\* stderr is the message alone
ConfigurationError ==
    /\ pc = "done"
    /\ exit_code = "FAILURE"
    /\ Len(stderr) = 1
    /\ Len(stderr[1]) = 1

\* C14: every configuration error (HyperLogLog size, --memmap in a build
\* without memmap, --report with a mode that is not exact) is raised before
\* any input is read or any line is counted, stdin included, and with
\* nothing written to stdout.
C14_ConfigurationErrorsBeforeInput ==
    ConfigurationError =>
        /\ IoEventsOf({"read", "mmap"}) = {}
        /\ run_calls = <<>>
        /\ stdout = <<>>

\* C25: --memmap together with --no-memmap is rejected when the arguments are
\* parsed: the run fails before any input is opened or counted, and neither
\* flag decides how the files are read.
C25_MemmapFlagsExclusive ==
    (args.memmap /\ args.no_memmap) =>
        /\ io_log = <<>>
        /\ run_calls = <<>>
        /\ pc = "done" => exit_code = "FAILURE" /\ stdout = <<>>

\* a write to stdout failed with the given kinds
StdoutWriteFailed(kinds) ==
    \E i \in IoEventsOf({"write"}) : io_log[i].result \in kinds

\* C15: when a write to stdout fails with broken pipe, in count mode or in
\* report mode, the process writes no diagnostic and exits with code 0.
C15_BrokenPipeIsSuccess ==
    StdoutWriteFailed({"BrokenPipe"}) => stderr = <<>> /\ exit_code = "SUCCESS"

\* the run ended with an error
RunFailed ==
    /\ pc = "done"
    /\ \/ \E i \in 1..Len(io_log) : io_log[i].result # "Ok"
       \/ IoEventsOf({"write"}) = {}

\* C16: every error other than a broken pipe while writing stdout gives
\* exactly one diagnostic line on stderr and a nonzero exit code.
C16_OtherErrorsOneLine ==
    RunFailed /\ ~StdoutWriteFailed({"BrokenPipe"}) =>
        Len(stderr) = 1 /\ exit_code \in {"FAILURE", "PANIC"}

\* stdout split at its newlines, each row without its newline
StdoutRows ==
    [i \in 1..Cardinality({q \in 1..Len(stdout) : stdout[q] = LF}) |->
        LET ends == {q \in 1..Len(stdout) : stdout[q] = LF}
            e == CHOOSE q \in ends : Cardinality({r \in ends : r < q}) = i - 1
            before == {r \in ends : r < e}
            b == IF before = {} THEN 0 ELSE CHOOSE r \in before : \A t \in before : t <= r
        IN  SubSeq(stdout, b + 1, e - 1)]

\* a is strictly before b in byte-wise lexicographic order
LexLT(a, b) ==
    \E k \in 0..Len(a) :
        /\ k <= Len(b)
        /\ \A i \in 1..k : a[i] = b[i]
        /\ \/ k = Len(a) /\ k < Len(b)
           \/ k < Len(a) /\ k < Len(b) /\ a[k + 1] < b[k + 1]

\* the number of count_line calls made with the line
Occurrences(line) == Cardinality({i \in 1..Len(run_calls) : run_calls[i].line = line})

\* the row is the count right-aligned in 7 columns, a space and the line
IsReportRow(row, line, count) ==
    /\ Len(row) = 8 + Len(line)
    /\ SubSeq(row, 9, Len(row)) = line
    /\ row[8] = SP
    /\ \E pad \in 0..6 :
          /\ \A i \in 1..pad : row[i] = SP
          /\ IsDecimalOf(SubSeq(row, pad + 1, 7), count)

\* C17: with --report --sort in exact mode, stdout holds exactly one row for
\* each distinct line counted, in strictly ascending byte-wise order of the
\* lines, each row the occurrence count right-aligned in 7 columns, a space,
\* the line bytes and a newline; nothing is written before all inputs are
\* processed.
C17_SortedReport ==
    args.report /\ args.sort /\ args.mode = "exact" =>
        /\ pc # "done" => stdout = <<>>
        /\ exit_code = "SUCCESS" =>
              /\ Len(run_calls) = TotalLines(Len(args.files))
              /\ stdout # <<>> => stdout[Len(stdout)] = LF
              /\ Len(StdoutRows) = Cardinality(CountedLines)
              /\ \A line \in CountedLines :
                    \E i \in 1..Len(StdoutRows) :
                        IsReportRow(StdoutRows[i], line, Occurrences(line))
              /\ \A i \in 1..(Len(StdoutRows) - 1) :
                    LexLT(SubSeq(StdoutRows[i], 9, Len(StdoutRows[i])),
                          SubSeq(StdoutRows[i + 1], 9, Len(StdoutRows[i + 1])))

\* a sorted report of three rows, one of them for a line counted twice,
\* from a stdin and a file
C17_Witness ==
    /\ args.report
    /\ args.sort
    /\ exit_code = "SUCCESS"
    /\ Len(StdoutRows) = 3
    /\ \E line \in CountedLines : Occurrences(line) = 2
    /\ StdinIsRead
    /\ Len(args.files) = 1

\* the inputs the run processes
ProcessedInputs == {k \in 0..Len(args.files) : k = 0 => StdinIsRead}

RECURSIVE ConcatInputs(_)
\* the bytes of the processed inputs 0..k, one after the other
ConcatInputs(k) ==
    IF k < 0 THEN <<>>
    ELSE ConcatInputs(k - 1) \o (IF k \in ProcessedInputs THEN InputBytes(k) ELSE <<>>)

\* no \r stands directly before a \n in any processed input
NoCrLfInput ==
    \A k \in ProcessedInputs :
        \A i \in 1..(Len(InputBytes(k)) - 1) :
            ~(InputBytes(k)[i] = CR /\ InputBytes(k)[i + 1] = LF)

\* C18 as stated: after several inputs went into one Exact counter, count()
\* is the number of distinct segments of the concatenation of the inputs
\* split at \n, also when an input that is not the last has no final \n
\* (taken for inputs without \r\n, which the adapters split alike).
C18_CountIsSegmentsOfConcatenation ==
    pc = "output" /\ args.mode = "exact" /\ NoCrLfInput =>
        ProcessorCount = Cardinality(DistinctSegments(ConcatInputs(Len(args.files))))

\* C18 amended: after several inputs went into one Exact counter, count()
\* is the number of distinct segments over the inputs each split at \n on
\* its own: the unterminated last segment of an input is a line and is not
\* joined with the start of the next input (for inputs without \r\n).
C18_CountIsSegmentsOfEachInput ==
    pc = "output" /\ args.mode = "exact" /\ NoCrLfInput =>
        ProcessorCount = Cardinality(UNION {DistinctSegments(InputBytes(k)) : k \in ProcessedInputs})

\* an Exact count over a stdin and two files without a final newline
C18_Witness ==
    /\ pc = "output"
    /\ args.mode = "exact"
    /\ ~args.report
    /\ NoCrLfInput
    /\ StdinIsRead
    /\ env.stdin # <<>>
    /\ args.files = <<"f1", "f1">>

(***************************************************************************)
(* SpecPre: calls of main.rs preprocess_line on one scratch buffer, as the *)
(* estimators make them                                                    *)
(***************************************************************************)
MaxLineLen == 3
MaxPreCalls == 2

\* the second byte of U+0085 (C2 85, the White_Space character NEL) and of
\* U+00C5 (C3 85, a capital letter)
Cont85 == 133

\* the bytes of the lines
PreBytes == {SP, UpperA, LeadC2, LeadC3, Cont85}

PreInit ==
    /\ line_mapper \in LineMappers
    /\ hasher = <<>>
    /\ lc = Unset
    /\ ne = Unset
    /\ hll = Unset
    /\ seen = <<>>
    /\ collided = {}
    /\ before_reset = NoReset
    /\ TokIdle /\ RepIdle /\ CtorIdle /\ RunIdle

\* line_mapper(line, &mut self.string_buffer)
PreprocessLine(line) ==
    /\ pre_calls < MaxPreCalls
    /\ pre_line' = line
    /\ pre_out' = preprocess_line(line_mapper, line, pre_buffer).out
    /\ pre_buffer' = preprocess_line(line_mapper, line, pre_buffer).buffer
    /\ pre_calls' = pre_calls + 1
    /\ UNCHANGED <<tokVars, engVars, repVars, ctorVars>>
    /\ UNCHANGED <<args, env, pc, files, cursor, run_calls, stdout, stderr, exit_code, io_log>>

PreNext == \E line \in SeqsUpTo(PreBytes, MaxLineLen) : PreprocessLine(line)

SpecPre == PreInit /\ [][PreNext]_vars

\* the ASCII whitespace bytes: \t \n \v \f \r and space
AsciiWs == {9, 10, 11, 12, 13, 32}

\* the positions of the bytes of s that are not ASCII whitespace
NonAsciiWsAt(s) == {i \in 1..Len(s) : s[i] \notin AsciiWs}

\* s without the ASCII whitespace bytes at its two ends
AsciiTrimmed(s) ==
    IF NonAsciiWsAt(s) = {} THEN <<>>
    ELSE SubSeq(s, CHOOSE i \in NonAsciiWsAt(s) : \A j \in NonAsciiWsAt(s) : i <= j,
                   CHOOSE i \in NonAsciiWsAt(s) : \A j \in NonAsciiWsAt(s) : j <= i)

RECURSIVE IsWhitespaceRun(_)
\* s is a sequence of White_Space characters in UTF-8: ASCII whitespace
\* bytes, U+0085 (C2 85) and U+00A0 (C2 A0)
IsWhitespaceRun(s) ==
    \/ s = <<>>
    \/ s[1] \in AsciiWs /\ IsWhitespaceRun(Tail(s))
    \/ Len(s) >= 2 /\ s[1] = 194 /\ s[2] \in {133, 160} /\ IsWhitespaceRun(Tail(Tail(s)))

\* s starts or ends with a White_Space character
WhitespaceAtAnEnd(s) ==
    \/ Len(s) >= 1 /\ (s[1] \in AsciiWs \/ s[Len(s)] \in AsciiWs)
    \/ Len(s) >= 2 /\ s[1] = 194 /\ s[2] \in {133, 160}
    \/ Len(s) >= 2 /\ s[Len(s) - 1] = 194 /\ s[Len(s)] \in {133, 160}

Latin1CapitalAt(line, i) ==
    i > 1 /\ line[i - 1] = 195 /\ line[i] \in (128..158) \ {151}

TrimOnly == [trim |-> TRUE, lowercase |-> FALSE]

LowercaseOnly == [trim |-> FALSE, lowercase |-> TRUE]

TrimAndLowercase == [trim |-> TRUE, lowercase |-> TRUE]

\* the line with every ASCII capital A replaced by a, and the reverse
WithLowerA(line) == [i \in 1..Len(line) |-> IF line[i] = UpperA THEN LowerA ELSE line[i]]

WithUpperA(line) == [i \in 1..Len(line) |-> IF line[i] = LowerA THEN UpperA ELSE line[i]]

\* lines that differ from the line only in surrounding ASCII whitespace and
\* in the case of the ASCII letter a
CaseAndSpaceVariants(line) ==
    {pad[1] \o body \o pad[2] :
        pad \in {<<>>, <<SP>>, <<TAB, SP>>} \X {<<>>, <<SP>>, <<CR>>},
        body \in {line, WithLowerA(line), WithUpperA(line)}}

\* C21: with trim and lowercase both enabled the preprocessor returns what
\* the lowercase-only preprocessor returns on the output of the trim-only
\* preprocessor, so that lines differing only in surrounding whitespace and
\* letter case are mapped to the same bytes and counted as one.
C21_TrimThenLowercase ==
    (pre_calls > 0 /\ line_mapper = TrimAndLowercase) =>
        /\ pre_out = preprocess_line(LowercaseOnly,
                                     preprocess_line(TrimOnly, pre_line, <<>>).out,
                                     <<>>).out
        /\ \A v \in CaseAndSpaceVariants(pre_line) :
               preprocess_line(line_mapper, v, pre_buffer).out = pre_out

\* a line with a leading space and a capital was trimmed and lowered
C21_Witness ==
    /\ pre_calls > 0
    /\ line_mapper = TrimAndLowercase
    /\ pre_line = <<SP, UpperA, SP>>
    /\ pre_out = <<LowerA>>

\* out is a contiguous part of line
IsSubrange(out, line) ==
    \E i \in 1..(Len(line) + 1) : \E j \in (i - 1)..Len(line) : out = SubSeq(line, i, j)

\* C29: preprocess_line clears and writes the scratch buffer only when
\* lowercase is enabled, and then the returned bytes are the buffer's new
\* contents with nothing left from the previous line; with lowercase disabled
\* the returned bytes are a subrange of the line and the buffer is unchanged.
C29_BufferWrittenOnlyWhenLowering ==
    [][IF line_mapper.lowercase
       THEN /\ pre_out' = pre_buffer'
            /\ pre_buffer' = ToLowercase(IF line_mapper.trim THEN Trim(pre_line') ELSE pre_line')
            /\ Len(pre_buffer') <= Len(pre_line')
       ELSE /\ pre_buffer' = pre_buffer
            /\ IsSubrange(pre_out', pre_line')]_vars

\* a second lowering call left only the second line in the buffer
C29_Witness ==
    /\ pre_calls = 2
    /\ line_mapper = LowercaseOnly
    /\ pre_line = <<UpperA>>
    /\ pre_buffer = <<LowerA>>
    /\ pre_out = <<LowerA>>

(***************************************************************************)
(* SpecHll: a HyperLogLog estimator from the choice of its register count  *)
(* on: the library constructors and the --size path of main.rs count(),    *)
(* for sizes up to usize::MAX, then count_line, count and reset            *)
(***************************************************************************)
MaxHllCalls == 2

\* every size up to this one is tried
MaxSmallSize == 33

\* the estimators whose registers are kept one by one: up to this many
MaxRegisters == 32

\* isize::MAX, the largest allocation a Vec makes
IsizeMax == <<0>> \o Ones(UsizeBits - 1)

\* the sizes tried: the small ones, and for every bit position the words
\* that hold two chosen bits there, zeros above and all zeros or all ones
\* below (every power of two, its neighbours, usize::MAX)
HllWords ==
    {Usize(n) : n \in 0..MaxSmallSize}
    \cup {Zeros(k) \o <<hi, lo>> \o fill[UsizeBits - 2 - k] :
             k \in 0..(UsizeBits - 2), hi \in {0, 1}, lo \in {0, 1},
             fill \in {[n \in 0..UsizeBits |-> Zeros(n)], [n \in 0..UsizeBits |-> Ones(n)]}}

HllLines == {<<>>, <<LowerA>>}

\* hash values: index bits all zero, mixed and all one; after the prefix all
\* ones, two zeros then ones, or all zeros
HllHashes ==
    {MkHash(prefix, k) :
        prefix \in {<<0, 0, 0, 0, 0>>, <<0, 1, 0, 1, 1>>, <<1, 1, 1, 1, 0>>, <<1, 1, 1, 1, 1>>},
        k \in {0, 2, HashBits - 5}}

\* init_hasher_state(): the keyed hash the constructor draws
HllHashers ==
    {[l \in HllLines |-> IF l = <<>> THEN h ELSE g] :
        h \in HllHashes, g \in {MkHash(<<0, 1, 0, 1, 1>>, 1), Zeros(HashBits)}}

\* vec![0; size]: Layout::array refuses more than isize::MAX bytes, and the
\* allocator may have no memory left
AllocOutcomes(size) ==
    IF UsizeLess(IsizeMax, size)
    THEN {"capacity overflow"}
    ELSE {"Ok", "memory allocation failed"}

\* HyperLogLog::with_capacity for any word: the register vector is kept as
\* its length alone
with_capacity(size, alloc) ==
    LET info == check_size(size)
    IN  IF ~info.ok THEN info
        ELSE IF alloc # "Ok"
        THEN [ok |-> FALSE, message |-> alloc, cause |-> <<"Panic", size>>]
        ELSE [ok |-> TRUE,
              size |-> size,
              bits |-> info.bits,
              shift_bits |-> info.shift_bits,
              mask |-> info.mask,
              counters_len |-> size]

\* the registers of the estimator are kept one by one
RegistersKept(result) == result.ok /\ ~UsizeLess(Usize(MaxRegisters), result.size)

HllInit ==
    /\ ctor_fn = "none"
    /\ ctor_size \in HllWords
    /\ ctor_result = Unset
    /\ ctor_count = NoCount
    /\ line_mapper = NoMapper
    /\ hasher = <<>>
    /\ lc = Unset
    /\ ne = Unset
    /\ hll = Unset
    /\ seen = <<>>
    /\ collided = {}
    /\ before_reset = NoReset
    /\ TokIdle /\ RepIdle /\ RunIdle

hllFrame == UNCHANGED <<line_mapper, lc, ne, collided, before_reset, tokVars, repVars, runVars>>

\* the estimator a constructor call leaves: its result, its random state and,
\* when they are kept, its registers
Constructed(fn, size, alloc, random_state) ==
    /\ ctor_fn = "none"
    /\ alloc \in AllocOutcomes(size)
    /\ ctor_fn' = fn
    /\ ctor_result' = with_capacity(size, alloc)
    /\ hasher' = IF with_capacity(size, alloc).ok THEN random_state ELSE hasher
    /\ hll' = IF RegistersKept(with_capacity(size, alloc))
              THEN with_line_mapper_and_capacity(UsizeValue(size))
              ELSE hll
    /\ UNCHANGED <<ctor_size, ctor_count, seen>>
    /\ hllFrame

\* previous_power_of_2(n), on its own
HllPreviousPowerOf2 ==
    /\ ctor_fn = "none"
    /\ ctor_fn' = "previous_power_of_2"
    /\ ctor_result' = [ok |-> TRUE, size |-> previous_power_of_2(ctor_size)]
    /\ UNCHANGED <<ctor_size, ctor_count, hasher, hll, seen>>
    /\ hllFrame

\* main.rs count(), Mode::Estimate with --size
HllCountWithSize(alloc, random_state) ==
    Constructed("count --size", previous_power_of_2(AtLeast16(ctor_size)), alloc, random_state)

\* main.rs count(), Mode::Estimate without --size
HllCountDefaultSize(alloc, random_state) ==
    Constructed("count", Usize(DEFAULT_SIZE), alloc, random_state)

\* HyperLogLog::with_capacity(size), HyperLogLog::with_line_mapper_and_capacity(_, size)
HllWithCapacity(alloc, random_state) ==
    Constructed("with_capacity", ctor_size, alloc, random_state)

\* an estimator was constructed
HllConstructed == ctor_fn \in {"count --size", "count", "with_capacity"} /\ ctor_result.ok

\* CountUnique::count_line
HllCountLineStep(line) ==
    /\ HllConstructed
    /\ RegistersKept(ctor_result)
    /\ Len(seen) < MaxHllCalls
    /\ hll' = HllCountLine(hll, hasher, line_mapper, line)
    /\ seen' = Append(seen, line)
    /\ ctor_count' = NoCount
    /\ UNCHANGED <<ctor_fn, ctor_size, ctor_result, hasher>>
    /\ hllFrame

\* CountUnique::count
HllCountStep ==
    /\ HllConstructed
    /\ RegistersKept(ctor_result)
    /\ ctor_count' = HllCount(hll)
    /\ UNCHANGED <<ctor_fn, ctor_size, ctor_result, hasher, hll, seen>>
    /\ hllFrame

\* CountUnique::reset
HllResetStep ==
    /\ HllConstructed
    /\ RegistersKept(ctor_result)
    /\ hll' = HllReset(hll)
    /\ seen' = <<>>
    /\ ctor_count' = NoCount
    /\ UNCHANGED <<ctor_fn, ctor_size, ctor_result, hasher>>
    /\ hllFrame

HllNext ==
    \/ HllPreviousPowerOf2
    \/ \E alloc \in {"Ok", "memory allocation failed", "capacity overflow"} :
          \E random_state \in HllHashers :
             \/ HllCountWithSize(alloc, random_state)
             \/ HllCountDefaultSize(alloc, random_state)
             \/ HllWithCapacity(alloc, random_state)
    \/ \E line \in HllLines : HllCountLineStep(line)
    \/ HllCountStep
    \/ HllResetStep

SpecHll == HllInit /\ [][HllNext]_vars

\* the word 2^k
PowerOfTwoWord(k) == [i \in 1..UsizeBits |-> IF i = UsizeBits - k THEN 1 ELSE 0]

\* a <= b on words
UsizeLeq(a, b) == a = b \/ UsizeLess(a, b)

\* p is the largest power of two that is at most n
LargestPowerOfTwoAtMost(p, n) ==
    /\ \E k \in 0..(UsizeBits - 1) : p = PowerOfTwoWord(k)
    /\ UsizeLeq(p, n)
    /\ \A k \in 0..(UsizeBits - 1) : UsizeLeq(PowerOfTwoWord(k), n) => UsizeLeq(PowerOfTwoWord(k), p)

\* C23: previous_power_of_2(n) is 0 for n = 0 and, for every n from 1 to
\* usize::MAX, the largest power of two p <= n (so p = n when n is a power
\* of two), computed with a shift amount below the word width.
C23_PreviousPowerOfTwo ==
    ctor_fn = "previous_power_of_2" =>
        IF ctor_size = Zeros(UsizeBits)
        THEN ctor_result.size = Zeros(UsizeBits)
        ELSE /\ LargestPowerOfTwoAtMost(ctor_result.size, ctor_size)
             /\ UsizeBits - leading_zeros(ctor_size) - 1 \in 0..(UsizeBits - 1)
             /\ (\E k \in 0..(UsizeBits - 1) : ctor_size = PowerOfTwoWord(k))
                   => ctor_result.size = ctor_size

\* usize::MAX was coerced to 2^63
C23_Witness ==
    /\ ctor_fn = "previous_power_of_2"
    /\ ctor_size = Ones(UsizeBits)
    /\ ctor_result.size = PowerOfTwoWord(UsizeBits - 1)

\* C22: in estimate mode every value N of --size, usize::MAX included, gives
\* an estimator constructed with the largest power of two <= max(16, N)
\* registers, and without --size one with 65536 registers; construction ends
\* neither in a Size error nor in a panic (running out of memory aside).
C22_EverySizeConstructs ==
    /\ ctor_fn = "count --size" =>
          IF ctor_result.ok
          THEN LargestPowerOfTwoAtMost(ctor_result.size,
                   IF UsizeLess(ctor_size, Usize(16)) THEN Usize(16) ELSE ctor_size)
          ELSE ctor_result.message = "memory allocation failed"
    /\ ctor_fn = "count" =>
          IF ctor_result.ok
          THEN ctor_result.size = Usize(65536)
          ELSE ctor_result.message = "memory allocation failed"

\* the registers kept one by one are as many as the register count
RegistersAre(m) ==
    RegistersKept(ctor_result) =>
        /\ hll.size = UsizeValue(m)
        /\ DOMAIN hll.counters = 0..(UsizeValue(m) - 1)

C28_RhoFitsAndIndexInRange ==
    HllConstructed =>
        LET b == ctor_result.bits
        IN  /\ \A h \in HllHashes \cup {Zeros(HashBits)} :
                 LET zeros == leading_zeros(right_bits(ctor_result, h))
                 IN  /\ zeros + 1 >= b
                     /\ zeros + 1 - b \in 1..(65 - b)
                     /\ AsU8(zeros + 1 - b) = zeros + 1 - b
                     /\ UsizeLess(Zeros(UsizeBits - b) \o SubSeq(h, 1, b), ctor_result.size)
                     /\ b < NatBitsMax => left_bits(ctor_result, h) \in 0..(2^b - 1)
            /\ RegistersKept(ctor_result) =>
                 /\ \A j \in DOMAIN hll.counters : hll.counters[j] \in 0..(65 - b)
                 /\ \A i \in 1..Len(seen) :
                      /\ left_bits(hll, hasher[seen[i]]) \in DOMAIN hll.counters
                      /\ hll.counters[left_bits(hll, hasher[seen[i]])] >=
                            leading_zeros(right_bits(hll, hasher[seen[i]])) + 1 - b

\* with 16 registers, a line whose hash is 0 was counted: register 0 holds 61
C28_Witness ==
    /\ HllConstructed
    /\ ctor_result.bits = 4
    /\ Len(seen) >= 1
    /\ hasher[seen[1]] = Zeros(HashBits)
    /\ hll.counters[0] = 61

\* C30: for every register count m = 2^b with b >= 4, check_size yields
\* bits = b, shift_bits = 64 - b and mask = 2^(64 - b) - 1 (bits 4 and mask
\* 0x0FFF_FFFF_FFFF_FFFF for m = 16); for every hash h, left_bits(h) is the
\* value of its top b bits, right_bits(h) its low 64 - b bits, and
\* h = left_bits(h) * 2^(64 - b) + right_bits(h).
C30_SizeInfoSplitsHash ==
    HllConstructed =>
        \E b \in 4..(UsizeBits - 1) :
            /\ ctor_result.size = PowerOfTwoWord(b)
            /\ ctor_result.bits = b
            /\ ctor_result.shift_bits = 64 - b
            /\ ctor_result.mask = [i \in 1..HashBits |-> IF i <= b THEN 0 ELSE 1]
            /\ b = 4 => ctor_result.mask = <<0, 0, 0, 0>> \o Ones(60)
            /\ \A h \in HllHashes :
                 LET right == right_bits(ctor_result, h)
                 IN  /\ \A i \in 1..HashBits : right[i] = IF i <= b THEN 0 ELSE h[i]
                     /\ b < NatBitsMax =>
                          LET left == left_bits(ctor_result, h)
                          IN  /\ left \in 0..(2^b - 1)
                              /\ [i \in 1..HashBits |->
                                    IF i <= b THEN (left \div 2^(b - i)) % 2 ELSE right[i]] = h

\* the size fields of an estimator with 16 registers
C30_Witness ==
    /\ ctor_fn = "with_capacity"
    /\ ctor_size = Usize(16)
    /\ ctor_result.ok
    /\ ctor_result.bits = 4
    /\ ctor_result.shift_bits = 60
    /\ ctor_result.mask = Zeros(4) \o Ones(60)

(***************************************************************************)
(* SpecCount: count(), count_line and reset on estimators whose registers  *)
(* earlier count_line calls have raised                                    *)
(***************************************************************************)
MaxRegisterValue == 3

\* registers as count_line calls leave them: the first zeroed ones still 0,
\* the others raised to value
RaisedRegisters(size, zeroed, value) ==
    [i \in 0..(size - 1) |-> IF i < zeroed THEN 0 ELSE value]

CountInit ==
    /\ \E size \in EngSizes :
          /\ ctor_fn = "with_capacity"
          /\ ctor_size = Usize(size)
          /\ ctor_result = with_capacity(Usize(size), "Ok")
          /\ \E zeroed \in 0..size : \E value \in 1..MaxRegisterValue :
                hll = [with_line_mapper_and_capacity(size) EXCEPT
                          !.counters = RaisedRegisters(size, zeroed, value)]
    /\ ctor_count = NoCount
    /\ line_mapper = NoMapper
    /\ hasher \in {[l \in HllLines |-> IF l = <<>> THEN h ELSE MkHash(<<0, 1, 0, 1, 1>>, 1)] :
                      h \in {Zeros(HashBits), MkHash(<<1, 1, 1, 1, 0>>, 2)}}
    /\ lc = Unset
    /\ ne = Unset
    /\ seen = <<>>
    /\ collided = {}
    /\ before_reset = NoReset
    /\ TokIdle /\ RepIdle /\ RunIdle

CountNext ==
    \/ \E line \in HllLines : HllCountLineStep(line)
    \/ HllCountStep
    \/ HllResetStep

SpecCount == CountInit /\ [][CountNext]_vars

\* the registers of st that hold value
RegistersAt(st, value) == {i \in DOMAIN st.counters : st.counters[i] = value}

RECURSIVE WeightedSum(_, _)
\* the sum over value in 0..top of (registers at value) * 2^(SumFractionBits - value)
WeightedSum(st, top) ==
    IF top < 0 THEN 0
    ELSE Cardinality(RegistersAt(st, top)) * 2^(SumFractionBits - top) + WeightedSum(st, top - 1)

\* E = alpha_m * m^2 / sum of 2^-register, in thousandths
RawEstimate(st) ==
    ((IF st.size = 16 THEN 673 ELSE 697) * st.size * st.size * 2^SumFractionBits)
        \div WeightedSum(st, SumFractionBits)

\* what count() is to return
ExpectedCount(st) ==
    LET V == Cardinality(RegistersAt(st, 0))
    IN  IF RawEstimate(st) < (5000 * st.size) \div 2 /\ V > 0
        THEN IF st.size = 16 THEN LinearCounting16[V] ELSE LinearCounting32[V]
        ELSE (RawEstimate(st) + 500) \div 1000

\* C26: count() computes E = alpha_m * m^2 / sum(2^-register[i]) and returns
\* round(m * ln(m / V)), V the number of zero registers, exactly when
\* E < 5m/2 and V > 0, and round(E) otherwise; an estimator whose registers
\* are all zero returns 0; count() changes no register.
C26_CountIsLinearOrRaw ==
    [][ctor_count' # NoCount =>
          /\ hll' = hll
          /\ ctor_count' = ExpectedCount(hll)
          /\ (\A i \in DOMAIN hll.counters : hll.counters[i] = 0) => ctor_count' = 0]_vars

\* with one of 16 registers at 0 and E = 59.9 above 5m/2 = 40, count() is
\* round(E) = 60
C26_Witness ==
    /\ hll.size = 16
    /\ Cardinality(RegistersAt(hll, 0)) = 1
    /\ ctor_count = 60

====
